---- MODULE Spec2Model ----
(***************************************************************************)
(* Verification model of the MLB what-if simulation backend: the base      *)
(* state cache (cache_manager.py), the clone / apply-transactions /        *)
(* aggregate pipeline (simulation.py) and the Z-score ranking              *)
(* (team_ranking.py), as the repository's architecture documents describe  *)
(* them.                                                                   *)
(*                                                                         *)
(* Python objects with identity (the roster lists) live in the heap        *)
(* `lists`; a base state or a cloned state is a dict team_name -> list     *)
(* reference.  Strings that the code lower-cases are sequences of ASCII    *)
(* codes.  Floats are exact scaled integers: a team average is stored      *)
(* times AvgScale, a Z-score is truncated to 1/ZScale.                     *)
(***************************************************************************)
EXTENDS Integers, Sequences, FiniteSets, TLC

VARIABLES
    now,            \* clock, in units of half the cache time-to-live
    cache,          \* Django cache: season -> None or [state, expires]
    lists,          \* heap of roster lists: list reference -> Seq(player)
    pc,             \* per request thread: position in the handler
    call,           \* per request thread: the arguments of the current call
    base_state,     \* local variable of get_base_state / run_simulation
    cloned_state,   \* local variable of run_simulation
    txn_i,          \* number of transactions applied so far
    messages,       \* transaction log of the current run
    stats,          \* aggregated hitting / pitching maps of the current run
    loader_calls,   \* loader calls made by the current call
    result,         \* what the current call returned
    rk_in,          \* input of a stand-alone ranking call
    rk_out,         \* output of the latest stand-alone ranking call
    rk_prev,        \* output of the stand-alone ranking call before it
    mc,             \* a Monte Carlo estimate in progress: trials, draws, counter
    wp,             \* a computeWinProbability call: the rosters and the result
    teamA,          \* useTeamManager: name shown for side A
    teamB,          \* useTeamManager: name shown for side B
    rosterA,        \* useTeamManager: players shown on side A
    rosterB,        \* useTeamManager: players shown on side B
    originalRosterA, \* useTeamManager: roster of side A as loaded
    originalRosterB, \* useTeamManager: roster of side B as loaded
    teamAId,        \* useTeamManager: id of the team of side A, or None
    teamBId,        \* useTeamManager: id of the team of side B, or None
    hitterStat,     \* useTeamManager: metric that rates the hitters
    pitcherStat,    \* useTeamManager: metric that rates the pitchers
    fetches,        \* getRoster calls that have not returned yet
    lastLoaded,     \* per side: the last getRoster result stored on it
    moveLog,        \* "moved" after a move, "undone" after the reset of one
    started,        \* team selections and metric changes made so far
    mode,           \* App: "Team" or "Player"
    transactions,   \* the pending transactions that handleDrop logs
    playerSim,      \* runPlayerModeSeasonSimulation calls waiting for fetch
    playerSimResult, \* what the latest of these calls returned
    teamStat,       \* App: the selected team stat
    isSimulating,   \* App: a season simulation is running
    simRequests,    \* POST /team_ranking/ requests that have no response yet
    showResults,    \* App: the results window is shown
    simulationResults, \* App: the results of the latest simulation
    simOutcome,     \* how the latest /team_ranking/ request ended
    selectedTeams,  \* useTeamSelect: the ids picked in the modal, in order
    modalOpen,      \* useTeamSelect: the modal is shown
    handedOver      \* the onTeamsSelected calls of the latest confirmSelection

vars == <<now, cache, lists, pc, call, base_state, cloned_state, txn_i,
          messages, stats, loader_calls, result, rk_in, rk_out, rk_prev,
          mc, wp, teamA, teamB, rosterA, rosterB, originalRosterA,
          originalRosterB, teamAId, teamBId, hitterStat, pitcherStat,
          fetches, lastLoaded, moveLog, started, mode, transactions,
          playerSim, playerSimResult, teamStat, isSimulating, simRequests,
          showResults, simulationResults, simOutcome, selectedTeams, modalOpen,
          handedOver>>

simVars == <<now, cache, lists, pc, call, base_state, cloned_state, txn_i,
             messages, stats, loader_calls, result>>

rankVars == <<rk_in, rk_out, rk_prev>>

\* The win-probability calculators and the front end
hookVars == <<teamA, teamB, rosterA, rosterB, originalRosterA,
              originalRosterB, teamAId, teamBId, hitterStat, pitcherStat,
              fetches, lastLoaded, moveLog, started>>

\* The state of App, of the team modal and of the pending transactions
appVars == <<mode, transactions, playerSim, playerSimResult, teamStat,
             isSimulating, simRequests, showResults, simulationResults,
             simOutcome, selectedTeams, modalOpen, handedOver>>

frontVars == <<mc, wp, hookVars, appVars>>

\* Optional values: Python's None is the empty sequence, a present value x
\* is <<x>>.
None == <<>>
Some(x) == <<x>>

\* ------------------------------------------------------------------------
\* Bounds of the model
\* ------------------------------------------------------------------------
NumReqs == 2      \* concurrent request threads
MaxTime == 3      \* clock ticks
MaxTxns == 2      \* transactions in one request
MaxStat == 2      \* largest team value handed to a stand-alone ranking
MaxTrials == 3    \* trials of a Monte Carlo estimate
MaxRoster == 2    \* players on a roster handed to computeWinProbability
MaxLoads == 2     \* team selections and metric changes of a session

Reqs == 1..NumReqs

\* ------------------------------------------------------------------------
\* Fixed-point scales
\* ------------------------------------------------------------------------
RECURSIVE Gcd(_, _)
Gcd(a, b) == IF b = 0 THEN a ELSE Gcd(b, a % b)

RECURSIVE LcmUpTo(_)
LcmUpTo(n) == IF n <= 1 THEN 1 ELSE LET m == LcmUpTo(n - 1) IN (m * n) \div Gcd(m, n)

\* Z-scores are kept to two decimals (the response rounds its values).
ZScale == 100

\* ------------------------------------------------------------------------
\* Strings
\* ------------------------------------------------------------------------
\* str.lower() on a sequence of ASCII codes
Lower(s) == [i \in 1..Len(s) |-> IF s[i] >= 65 /\ s[i] <= 90 THEN s[i] + 32 ELSE s[i]]

Name_Oh == <<79, 104>>       \* "Oh"
Name_OH == <<79, 72>>        \* "OH"
Name_Sm == <<83, 109>>       \* "Sm"
Name_sm == <<115, 109>>      \* "sm"
Name_Ju == <<74, 117>>       \* "Ju"
Name_Co == <<67, 111>>       \* "Co"
Name_Zz == <<90, 122>>       \* "Zz"
Name_Ki == <<75, 105>>       \* "Ki"

\* ------------------------------------------------------------------------
\* Metric catalogue
\* ------------------------------------------------------------------------
METRIC_DIRECTION ==
    [avg |-> TRUE, ops |-> TRUE, hr |-> TRUE, rbi |-> TRUE, r |-> TRUE,
     h |-> TRUE, obp |-> TRUE, slg |-> TRUE,
     era |-> FALSE, whip |-> FALSE, l |-> FALSE, bb |-> FALSE,
     so |-> TRUE, w |-> TRUE]

\* available_metrics
HITTING_METRICS == {"avg", "ops", "ops_plus", "hr", "rbi", "r", "h", "obp", "slg"}
PITCHING_METRICS == {"era", "era_plus", "whip", "so", "w", "l", "bb"}

\* Position types whose hitting stats are aggregated
HITTER_POSITION_TYPES == {"OF", "C", "SS", "DH", "2B", "3B", "1B"}

TEAM_LEAGUE_MAP == [NYY |-> "AL", BOS |-> "AL", LAD |-> "NL"]

\* ------------------------------------------------------------------------
\* The external store: per season, team_name -> roster
\* ------------------------------------------------------------------------
Player(id, name, ptype, hit, pit) ==
    [player_id |-> id, player_name |-> name, position_type |-> ptype,
     hitting_stats |-> hit, pitching_stats |-> pit]

\* A stats mapping is a set of <<metric, value>> pairs; a metric the player
\* has no value for has no pair.
NoStats == {}

P_Ohtani == Player(1, Name_Oh, "DH", {<<"ops", 2>>}, {<<"era", 1>>})
P_Smith  == Player(2, Name_Sm, "P", NoStats, {<<"era", 2>>})
P_smith  == Player(3, Name_sm, "SS", {<<"ops", 1>>}, NoStats)
P_Judge  == Player(4, Name_Ju, "OF", {<<"ops", 2>>}, NoStats)
P_Cole   == Player(5, Name_Co, "P", {<<"ops", 0>>}, {<<"era", 0>>})
P_Kim    == Player(6, Name_Ki, "2B", NoStats, NoStats)

AllPlayers == {P_Ohtani, P_Smith, P_smith, P_Judge, P_Cole, P_Kim}

\* Team averages are stored times AvgScale, which every possible player
\* count divides.
AvgScale == LcmUpTo(Cardinality(AllPlayers))

Seasons == {2024, 2025}

DB ==
    [s \in Seasons |->
        IF s = 2024
        THEN [LAD |-> <<P_Ohtani, P_Smith, P_smith>>, NYY |-> <<P_Judge, P_Kim>>]
        ELSE [LAD |-> <<P_Ohtani, P_Smith>>, NYY |-> <<P_Judge, P_Cole>>,
              BOS |-> <<P_smith>>]]

\* ------------------------------------------------------------------------
\* Requests the clients send
\* ------------------------------------------------------------------------
Txn(name, from, to) ==
    [player_name |-> name, position |-> "DH", from_team |-> from, to_team |-> to]

RunCall(hm, pm, txns, season) ==
    [op |-> "run", season |-> season, force_refresh |-> FALSE,
     hitter_metric |-> hm, pitcher_metric |-> pm, transactions |-> txns]

GetCall(season, force) ==
    [op |-> "get", season |-> season, force_refresh |-> force,
     hitter_metric |-> "", pitcher_metric |-> "", transactions |-> <<>>]

GetCalls == {GetCall(season, force) : season \in Seasons, force \in BOOLEAN}

\* The direct get_base_state calls of the concurrent threads
ConcurrentGets == {GetCall(2025, force) : force \in BOOLEAN}

\* The simulation requests of the concurrent threads
ConcurrentRuns ==
    { RunCall("ops", "era",
              <<Txn(Name_OH, "LAD", "NYY"), Txn(Name_Oh, "NYY", "BOS")>>, 2025),
      RunCall("ops", "era",
              <<Txn(Name_Ju, "NYY", "LAD"), Txn(Name_Zz, "LAD", "NYY")>>, 2025) }

\* The simulation requests of a single thread: any metrics, any season, any
\* list of at most MaxTxns transactions from the pool
TxnPool ==
    { Txn(Name_OH, "LAD", "NYY"), Txn(Name_Oh, "NYY", "BOS"),
      Txn(Name_Sm, "LAD", "LAD"), Txn(Name_sm, "LAD", "NYY"),
      Txn(Name_Zz, "LAD", "NYY"), Txn(Name_Ju, "NYY", "SEA"),
      Txn(Name_Ju, "SEA", "NYY"), Txn(Name_Ju, "NYY", "LAD") }

TxnListsUpTo(n) == UNION {[1..k -> TxnPool] : k \in 1..n}

HitterChoices == {"ops", "xyz"}
PitcherChoices == {"era", "abc"}

SingleRuns ==
    { RunCall(hm, pm, txns, season) :
        hm \in HitterChoices, pm \in PitcherChoices,
        txns \in TxnListsUpTo(MaxTxns), season \in Seasons }

\* ------------------------------------------------------------------------
\* The heap of roster lists
\* ------------------------------------------------------------------------
\* The loader builds the season's snapshot from the lists
\* <<"base", season, team>>; the clone of request thread r is built from the
\* lists <<"clone", r, team>>.  A reload replaces the season's lists by lists
\* of the same content (the store does not change).
Refs(st) == {st[t] : t \in DOMAIN st}

\* The rosters a state dict denotes in heap l
Contents(l, st) == [t \in DOMAIN st |-> l[st[t]]]

\* List references reachable from the cache or from a thread's locals
Referenced(c, bs, cs) ==
    UNION ({Refs(c[s][1].state) : s \in {x \in Seasons : c[x] # None}}
           \cup {Refs(bs[r][1]) : r \in {x \in Reqs : bs[x] # None}}
           \cup {Refs(cs[r][1]) : r \in {x \in Reqs : cs[x] # None}})

\* Python's garbage collection: unreachable lists disappear
Gc(l, c, bs, cs) == [x \in (DOMAIN l) \cap Referenced(c, bs, cs) |-> l[x]]

\* ------------------------------------------------------------------------
\* cache_manager.py
\* ------------------------------------------------------------------------
\* One hour, in clock units of half an hour
CACHE_TTL == 2

\* A cache.get that never lets an entry expire
LiveForever(c, season, t) == c[season] # None

\* Django's cache.get: an entry past its expiry is not returned
Live(c, season, t) == c[season] # None /\ c[season][1].expires > t

\* A loader that answers with the rosters of the earliest season
serialize_player_data_any_season(l, season) ==
    LET st == [t \in DOMAIN DB[2024] |-> <<"base", 2024, t>>]
    IN [state |-> st,
        lists |-> [x \in Refs(st) |-> DB[2024][x[3]]] @@ l]

\* The loader: one query, organised by team into new lists
serialize_player_data_from_db(l, season) ==
    LET st == [t \in DOMAIN DB[season] |-> <<"base", season, t>>]
    IN [state |-> st,
        lists |-> [x \in Refs(st) |-> DB[season][x[3]]] @@ l]

\* get_base_state that forgets force_refresh
get_base_state_hit_unforced(c, season, force_refresh, t) == Live(c, season, t)

\* get_base_state, the cache check: TRUE when the cached value is returned
get_base_state_hit(c, season, force_refresh, t) ==
    ~force_refresh /\ Live(c, season, t)

\* get_base_state, the cache.set after a successful load
cache_set(c, season, st, t) ==
    [c EXCEPT ![season] = Some([state |-> st, expires |-> t + CACHE_TTL])]

\* invalidate_base_state_cache(season) calling cache.clear()
invalidate_one_clears(c, season) == [s \in Seasons |-> None]

\* invalidate_base_state_cache(season): cache.delete of that season's key
invalidate_one(c, season) == [c EXCEPT ![season] = None]

\* invalidate_base_state_cache(): every season's key
invalidate_all(c) == [s \in Seasons |-> None]

\* ------------------------------------------------------------------------
\* simulation.py
\* ------------------------------------------------------------------------
\* The working copy kept in one module-level variable for all requests
CloneRefShared(r, t) == <<"clone", 0, t>>

\* The lists of the working copy of request thread r
CloneRef(r, t) == <<"clone", r, t>>

\* clone_base_state as a shallow copy: a new dict over the same lists
clone_base_state_shallow(l, st, r) == [state |-> st, lists |-> l]

\* copy.deepcopy(base_state): a new list per team, holding the same players
clone_base_state(l, st, r) ==
    LET cs == [t \in DOMAIN st |-> CloneRef(r, t)]
    IN [state |-> cs,
        lists |-> [x \in Refs(cs) |-> l[st[x[3]]]] @@ l]

RemoveAt(seq, i) == SubSeq(seq, 1, i - 1) \o SubSeq(seq, i + 1, Len(seq))

\* FIND PLAYER comparing the names as they are
find_player_exact(roster, name) ==
    IF \E i \in 1..Len(roster) : roster[i].player_name = name
    THEN CHOOSE i \in 1..Len(roster) :
            /\ roster[i].player_name = name
            /\ \A j \in 1..(i - 1) : roster[j].player_name # name
    ELSE 0

\* The FIND PLAYER loop: index of the first case-insensitive match, 0 if none
find_player(roster, name) ==
    IF \E i \in 1..Len(roster) : Lower(roster[i].player_name) = Lower(name)
    THEN CHOOSE i \in 1..Len(roster) :
            /\ Lower(roster[i].player_name) = Lower(name)
            /\ \A j \in 1..(i - 1) : Lower(roster[j].player_name) # Lower(name)
    ELSE 0

\* The log line with the two teams exchanged
TradeMessageSwapped(txn) ==
    <<"Traded", txn.player_name, "from", txn.to_team, "to", txn.from_team>>

\* LOG: "Traded {player_name} from {from_team} to {to_team}"
TradeMessage(txn) ==
    <<"Traded", txn.player_name, "from", txn.from_team, "to", txn.to_team>>

\* apply_transactions removing by a filter on the name instead of pop(index)
apply_transaction_filter(l, st, txn) ==
    IF txn.from_team \notin DOMAIN st
    THEN [ok |-> FALSE, error |-> "TeamNotFound", lists |-> l, message |-> <<>>]
    ELSE IF txn.to_team \notin DOMAIN st
    THEN [ok |-> FALSE, error |-> "TeamNotFound", lists |-> l, message |-> <<>>]
    ELSE LET player_index == find_player(l[st[txn.from_team]], txn.player_name)
         IN IF player_index = 0
            THEN [ok |-> FALSE, error |-> "PlayerNotFound", lists |-> l,
                  message |-> <<>>]
            ELSE LET player_data == l[st[txn.from_team]][player_index]
                     NoMatch(p) == Lower(p.player_name) # Lower(txn.player_name)
                     popped == [l EXCEPT ![st[txn.from_team]] =
                                    SelectSeq(@, NoMatch)]
                     appended == [popped EXCEPT ![st[txn.to_team]] =
                                    Append(@, player_data)]
                 IN [ok |-> TRUE, error |-> "", lists |-> appended,
                     message |-> TradeMessage(txn)]

\* One iteration of apply_transactions on the state dict st in heap l
apply_transaction(l, st, txn) ==
    IF txn.from_team \notin DOMAIN st
    THEN [ok |-> FALSE, error |-> "TeamNotFound", lists |-> l, message |-> <<>>]
    ELSE IF txn.to_team \notin DOMAIN st
    THEN [ok |-> FALSE, error |-> "TeamNotFound", lists |-> l, message |-> <<>>]
    ELSE LET player_index == find_player(l[st[txn.from_team]], txn.player_name)
         IN IF player_index = 0
            THEN [ok |-> FALSE, error |-> "PlayerNotFound", lists |-> l,
                  message |-> <<>>]
            ELSE LET player_data == l[st[txn.from_team]][player_index]
                     popped == [l EXCEPT ![st[txn.from_team]] =
                                    RemoveAt(@, player_index)]
                     appended == [popped EXCEPT ![st[txn.to_team]] =
                                    Append(@, player_data)]
                 IN [ok |-> TRUE, error |-> "", lists |-> appended,
                     message |-> TradeMessage(txn)]

\* The rosters a state denotes, as plain values (what the aggregation reads)
HasStat(S, key) == \E e \in S : e[1] = key
StatValue(S, key) == (CHOOSE e \in S : e[1] = key)[2]

\* The position filter and the NULL filter of the aggregation
Eligible(p, stat_key) ==
    IF stat_key \in HITTING_METRICS
    THEN p.position_type \in HITTER_POSITION_TYPES /\ HasStat(p.hitting_stats, stat_key)
    ELSE p.position_type = "P" /\ HasStat(p.pitching_stats, stat_key)

PlayerStat(p, stat_key) ==
    IF stat_key \in HITTING_METRICS
    THEN StatValue(p.hitting_stats, stat_key)
    ELSE StatValue(p.pitching_stats, stat_key)

RECURSIVE SumEligible(_, _)
SumEligible(roster, stat_key) ==
    IF roster = <<>> THEN 0
    ELSE (IF Eligible(Head(roster), stat_key)
          THEN PlayerStat(Head(roster), stat_key) ELSE 0)
         + SumEligible(Tail(roster), stat_key)

CountEligible(roster, stat_key) ==
    Cardinality({i \in 1..Len(roster) : Eligible(roster[i], stat_key)})

\* An aggregation that counts a missing value as 0
aggregate_stats_zero_filled(state, stat_key) ==
    LET ByPosition(p) ==
            IF stat_key \in HITTING_METRICS
            THEN p.position_type \in HITTER_POSITION_TYPES
            ELSE p.position_type = "P"
        Count(t) == Cardinality({i \in 1..Len(state[t]) : ByPosition(state[t][i])})
    IN [t \in {u \in DOMAIN state : Count(u) > 0} |->
            (SumEligible(state[t], stat_key) * AvgScale) \div Count(t)]

\* aggregate_stats_from_state: team -> average (times AvgScale); a team with
\* no eligible player has no key
aggregate_stats_from_state(state, stat_key) ==
    LET teams == {t \in DOMAIN state : CountEligible(state[t], stat_key) > 0}
    IN [t \in teams |->
            (SumEligible(state[t], stat_key) * AvgScale)
                \div CountEligible(state[t], stat_key)]

\* ------------------------------------------------------------------------
\* team_ranking.py
\* ------------------------------------------------------------------------
RECURSIVE SumOver(_, _)
SumOver(f, S) ==
    IF S = {} THEN 0
    ELSE LET x == CHOOSE y \in S : TRUE IN f[x] + SumOver(f, S \ {x})

RECURSIVE Bisect(_, _, _)
Bisect(x, lo, hi) ==
    IF lo >= hi THEN lo
    ELSE LET mid == (lo + hi + 1) \div 2
         IN IF mid * mid <= x THEN Bisect(x, mid, hi) ELSE Bisect(x, lo, mid - 1)

\* floor of the square root
ISqrt(x) == Bisect(x, 0, 46340)

\* League statistics of one metric over the n teams that have a value:
\* sum = n * mean and dev2 = (n * std_dev)^2, both exact
LeagueStats(team_stats) ==
    LET n == Cardinality(DOMAIN team_stats)
        sum == SumOver(team_stats, DOMAIN team_stats)
        sumsq == SumOver([t \in DOMAIN team_stats |-> team_stats[t] * team_stats[t]],
                         DOMAIN team_stats)
    IN [n |-> n, sum |-> sum, dev2 |-> n * sumsq - sum * sum]

\* A team without a value counted as 0 instead of the mean
ValueTimesNZeroFilled(team_stats, ls, t) ==
    IF t \in DOMAIN team_stats THEN ls.n * team_stats[t] ELSE 0

\* A team's value times n; a team without a value defaults to the mean
ValueTimesN(team_stats, ls, t) ==
    IF t \in DOMAIN team_stats THEN ls.n * team_stats[t] ELSE ls.sum

\* The value reported for a team, as the fraction <<numerator, denominator>>
ReportedValue(team_stats, ls, t) ==
    IF t \in DOMAIN team_stats THEN <<team_stats[t], 1>> ELSE <<ls.sum, ls.n>>

\* calculate_z_score without the zero check: the division raises
calculate_z_score_unguarded(value_n, mean_n, dev2) ==
    IF dev2 = 0
    THEN [err |-> TRUE, z |-> 0]
    ELSE LET d == value_n - mean_n
             m == ISqrt((d * d * ZScale * ZScale) \div dev2)
         IN [err |-> FALSE, z |-> IF d < 0 THEN -m ELSE m]

\* calculate_z_score(value, mean, std_dev) on n*value, n*mean, (n*std_dev)^2:
\* (value - mean) / std_dev truncated to 1/ZScale, and 0 when std_dev is 0
calculate_z_score(value_n, mean_n, dev2) ==
    IF dev2 = 0
    THEN [err |-> FALSE, z |-> 0]
    ELSE LET d == value_n - mean_n
             m == ISqrt((d * d * ZScale * ZScale) \div dev2)
         IN [err |-> FALSE, z |-> IF d < 0 THEN -m ELSE m]

\* normalize_z_score_by_direction with a list that lags behind the catalogue
normalize_z_score_stale_list(z_score, metric) ==
    IF metric \in {"era", "whip"} THEN -z_score ELSE z_score

\* normalize_z_score_by_direction(z_score, metric)
normalize_z_score_by_direction(z_score, metric) ==
    IF metric \in {"era", "whip", "l", "bb"} THEN -z_score ELSE z_score

\* Python's order on the team names of the model
TeamNameOrder == <<"BOS", "LAD", "NYY", "SEA">>
NameIndex(t) == CHOOSE i \in 1..Len(TeamNameOrder) : TeamNameOrder[i] = t

\* Score descending, ties in reverse order of the team names
RankedBeforeNameDescending(a, b) ==
    \/ a.score > b.score
    \/ a.score = b.score /\ NameIndex(a.team_name) > NameIndex(b.team_name)

\* The order of the ranking: score descending, ties by team name
RankedBefore(a, b) ==
    \/ a.score > b.score
    \/ a.score = b.score /\ NameIndex(a.team_name) < NameIndex(b.team_name)

RECURSIVE SortRanked(_)
SortRanked(S) ==
    IF S = {} THEN <<>>
    ELSE LET first == CHOOSE a \in S : \A b \in S \ {a} : RankedBefore(a, b)
         IN <<first>> \o SortRanked(S \ {first})

\* A lookup without the fallback league
LeagueOfStrict(t) ==
    IF t \in DOMAIN TEAM_LEAGUE_MAP THEN TEAM_LEAGUE_MAP[t] ELSE "UNKNOWN"

\* TEAM_LEAGUE_MAP.get(team_name, "NL")
LeagueOf(t) ==
    IF t \in DOMAIN TEAM_LEAGUE_MAP THEN TEAM_LEAGUE_MAP[t] ELSE "NL"

SelectSeq2(seq, league) ==
    LET F[i \in 0..Len(seq)] ==
            IF i = 0 THEN <<>>
            ELSE IF LeagueOf(seq[i].team_name) = league
                 THEN Append(F[i - 1], seq[i]) ELSE F[i - 1]
    IN F[Len(seq)]

\* Ranks counted from 0
WithRankFromZero(seq) == [i \in 1..Len(seq) |-> [seq[i] EXCEPT !.rank = i - 1]]

\* Step 6: the rank is the position in the league's list
WithRank(seq) == [i \in 1..Len(seq) |-> [seq[i] EXCEPT !.rank = i]]

\* rank_teams_from_aggregated_stats, in its detailed form
rank_teams_from_aggregated_stats(hitting_stats, pitching_stats, hitter_metric, pitcher_metric) ==
    IF DOMAIN hitting_stats = {} \/ DOMAIN pitching_stats = {}
    THEN [status |-> "error", error |-> "AggregationFailure",
          AL |-> <<>>, NL |-> <<>>]
    ELSE
    LET hs == LeagueStats(hitting_stats)
        ps == LeagueStats(pitching_stats)
        teams == (DOMAIN hitting_stats) \cup (DOMAIN pitching_stats)
        hz(t) == calculate_z_score(ValueTimesN(hitting_stats, hs, t), hs.sum, hs.dev2)
        pz(t) == calculate_z_score(ValueTimesN(pitching_stats, ps, t), ps.sum, ps.dev2)
        entry(t) ==
            LET hn == normalize_z_score_by_direction(hz(t).z, hitter_metric)
                pn == normalize_z_score_by_direction(pz(t).z, pitcher_metric)
            IN [rank |-> 0, team_name |-> t, score |-> hn + pn,
                hitter_value |-> ReportedValue(hitting_stats, hs, t),
                pitcher_value |-> ReportedValue(pitching_stats, ps, t),
                hitter_z_score |-> hn, pitcher_z_score |-> pn]
        sorted == SortRanked({entry(t) : t \in teams})
    IN IF \E t \in teams : hz(t).err \/ pz(t).err
       THEN [status |-> "error", error |-> "ZeroDivisionError",
             AL |-> <<>>, NL |-> <<>>]
       ELSE [status |-> "success", error |-> "",
             AL |-> WithRank(SelectSeq2(sorted, "AL")),
             NL |-> WithRank(SelectSeq2(sorted, "NL"))]

\* ------------------------------------------------------------------------
\* Calls and their results
\* ------------------------------------------------------------------------
ErrorResult(kind) ==
    [status |-> "error", error |-> kind, ranking |-> None, base |-> None,
     transactions_applied |-> 0, transaction_messages |-> <<>>]

GetResult(st) ==
    [status |-> "success", error |-> "", ranking |-> None, base |-> Some(st),
     transactions_applied |-> 0, transaction_messages |-> <<>>]

\* The response of a run: the ranking plus the simulation block, or the
\* error of the ranking
build_response(rk, msgs) ==
    IF rk.status = "error"
    THEN ErrorResult(rk.error)
    ELSE [status |-> "success", error |-> "",
          ranking |-> Some([AL |-> rk.AL, NL |-> rk.NL]), base |-> None,
          transactions_applied |-> Len(msgs), transaction_messages |-> msgs]

\* A validation that looks at the hitter metric only
validate_metrics_hitter_only(hm, pm) ==
    IF hm \notin HITTING_METRICS THEN "UnknownMetric" ELSE ""

\* STEP 1, the metric validation: the error kind, "" when both are known
validate_metrics(hm, pm) ==
    IF hm \notin HITTING_METRICS THEN "UnknownMetric"
    ELSE IF pm \notin PITCHING_METRICS THEN "UnknownMetric"
    ELSE ""

\* Where a call goes once get_base_state has returned
AfterFetch(c) == IF c.op = "run" THEN "clone" ELSE "done"

\* ------------------------------------------------------------------------
\* Initial state
\* ------------------------------------------------------------------------
InitSim ==
    /\ now = 0
    /\ cache = [s \in Seasons |-> None]
    /\ lists = <<>>
    /\ pc = [r \in Reqs |-> "idle"]
    /\ call = [r \in Reqs |-> None]
    /\ base_state = [r \in Reqs |-> None]
    /\ cloned_state = [r \in Reqs |-> None]
    /\ txn_i = [r \in Reqs |-> 0]
    /\ messages = [r \in Reqs |-> <<>>]
    /\ stats = [r \in Reqs |-> None]
    /\ loader_calls = [r \in Reqs |-> 0]
    /\ result = [r \in Reqs |-> None]

\* The names the hook shows for a side that has no team
DefaultTeamA == "Team A"
DefaultTeamB == "Team B"

\* useTeamManager(): the initial values of the useState calls
InitHook ==
    /\ teamA = DefaultTeamA
    /\ teamB = DefaultTeamB
    /\ rosterA = <<>>
    /\ rosterB = <<>>
    /\ originalRosterA = <<>>
    /\ originalRosterB = <<>>
    /\ teamAId = None
    /\ teamBId = None
    /\ hitterStat = "ops"
    /\ pitcherStat = "era"
    /\ fetches = {}
    /\ lastLoaded = [side \in {"A", "B"} |-> None]
    /\ moveLog = "none"
    /\ started = 0

\* App() and useTeamSelect(): the initial values of the useState calls; no
\* transaction is pending and no request is under way
InitApp ==
    /\ mode = "Team"
    /\ transactions = <<>>
    /\ playerSim = {}
    /\ playerSimResult = None
    /\ teamStat = "pythagorean"
    /\ isSimulating = FALSE
    /\ simRequests = {}
    /\ showResults = FALSE
    /\ simulationResults = None
    /\ simOutcome = None
    /\ selectedTeams = <<>>
    /\ modalOpen = FALSE
    /\ handedOver = <<>>

\* Nothing of the front end is running
InitFront ==
    /\ mc = None
    /\ wp = None
    /\ InitHook
    /\ InitApp

Init ==
    /\ InitSim
    /\ rk_in = None
    /\ rk_out = None
    /\ rk_prev = None
    /\ InitFront

\* ------------------------------------------------------------------------
\* Actions of a request thread
\* ------------------------------------------------------------------------
\* A client posts a simulation request; STEP 1 validates the metrics
StartRun(r, runs) ==
    /\ pc[r] = "idle"
    /\ \E c \in runs :
          /\ call' = [call EXCEPT ![r] = Some(c)]
          /\ IF validate_metrics(c.hitter_metric, c.pitcher_metric) # ""
             THEN /\ result' = [result EXCEPT ![r] = Some(ErrorResult(
                        validate_metrics(c.hitter_metric, c.pitcher_metric)))]
                  /\ pc' = [pc EXCEPT ![r] = "done"]
             ELSE /\ result' = [result EXCEPT ![r] = None]
                  /\ pc' = [pc EXCEPT ![r] = "fetch"]
    /\ loader_calls' = [loader_calls EXCEPT ![r] = 0]
    /\ UNCHANGED <<now, cache, lists, base_state, cloned_state, txn_i,
                   messages, stats, rankVars, frontVars>>

\* A caller invokes get_base_state directly
StartGet(r, calls) ==
    /\ pc[r] = "idle"
    /\ \E c \in calls : call' = [call EXCEPT ![r] = Some(c)]
    /\ pc' = [pc EXCEPT ![r] = "fetch"]
    /\ loader_calls' = [loader_calls EXCEPT ![r] = 0]
    /\ result' = [result EXCEPT ![r] = None]
    /\ UNCHANGED <<now, cache, lists, base_state, cloned_state, txn_i,
                   messages, stats, rankVars, frontVars>>

\* STEP 3, get_base_state: the cache check
GetCheck(r) ==
    /\ pc[r] = "fetch"
    /\ LET c == call[r][1]
       IN IF get_base_state_hit(cache, c.season, c.force_refresh, now)
          THEN /\ base_state' = [base_state EXCEPT ![r] =
                                    Some(cache[c.season][1].state)]
               /\ pc' = [pc EXCEPT ![r] = AfterFetch(c)]
               /\ result' = [result EXCEPT ![r] =
                    IF c.op = "get" THEN Some(GetResult(cache[c.season][1].state))
                    ELSE None]
          ELSE /\ pc' = [pc EXCEPT ![r] = "load"]
               /\ UNCHANGED <<base_state, result>>
    /\ UNCHANGED <<now, cache, lists, call, cloned_state, txn_i, messages,
                   stats, loader_calls, rankVars, frontVars>>

\* STEP 3, get_base_state on a miss: the loader answers, the result is cached
LoadOk(r) ==
    /\ pc[r] = "load"
    /\ LET c == call[r][1]
           loaded == serialize_player_data_from_db(lists, c.season)
       IN /\ cache' = cache_set(cache, c.season, loaded.state, now)
          /\ base_state' = [base_state EXCEPT ![r] = Some(loaded.state)]
          /\ lists' = Gc(loaded.lists, cache', base_state', cloned_state)
          /\ pc' = [pc EXCEPT ![r] = AfterFetch(c)]
          /\ result' = [result EXCEPT ![r] =
                IF c.op = "get" THEN Some(GetResult(loaded.state)) ELSE None]
    /\ loader_calls' = [loader_calls EXCEPT ![r] = @ + 1]
    /\ UNCHANGED <<now, call, cloned_state, txn_i, messages, stats,
                   rankVars, frontVars>>

\* The loader raises and the empty result is cached all the same
LoadFailPoisoning(r) ==
    /\ pc[r] = "load"
    /\ loader_calls' = [loader_calls EXCEPT ![r] = @ + 1]
    /\ result' = [result EXCEPT ![r] = Some(ErrorResult("DataUnavailable"))]
    /\ pc' = [pc EXCEPT ![r] = "done"]
    /\ cache' = cache_set(cache, call[r][1].season, <<>>, now)
    /\ lists' = Gc(lists, cache', base_state, cloned_state)
    /\ UNCHANGED <<now, call, base_state, cloned_state, txn_i,
                   messages, stats, rankVars, frontVars>>

\* STEP 3, get_base_state on a miss: the loader raises
LoadFail(r) ==
    /\ pc[r] = "load"
    /\ loader_calls' = [loader_calls EXCEPT ![r] = @ + 1]
    /\ result' = [result EXCEPT ![r] = Some(ErrorResult("DataUnavailable"))]
    /\ pc' = [pc EXCEPT ![r] = "done"]
    /\ UNCHANGED <<now, cache, lists, call, base_state, cloned_state, txn_i,
                   messages, stats, rankVars, frontVars>>

\* STEP 4, clone_base_state
Clone(r) ==
    /\ pc[r] = "clone"
    /\ LET cl == clone_base_state(lists, base_state[r][1], r)
       IN /\ cloned_state' = [cloned_state EXCEPT ![r] = Some(cl.state)]
          /\ lists' = Gc(cl.lists, cache, base_state, cloned_state')
    /\ txn_i' = [txn_i EXCEPT ![r] = 0]
    /\ messages' = [messages EXCEPT ![r] = <<>>]
    /\ pc' = [pc EXCEPT ![r] = "apply"]
    /\ UNCHANGED <<now, cache, call, base_state, stats, loader_calls, result,
                   rankVars, frontVars>>

\* apply_transactions skipping a transaction that fails
ApplyTxnSkipping(r) ==
    /\ pc[r] = "apply"
    /\ LET txns == call[r][1].transactions
           res == apply_transaction(lists, cloned_state[r][1], txns[txn_i[r] + 1])
       IN /\ lists' = res.lists
          /\ txn_i' = [txn_i EXCEPT ![r] = @ + 1]
          /\ messages' = [messages EXCEPT ![r] =
                            IF res.ok THEN Append(@, res.message) ELSE @]
          /\ pc' = [pc EXCEPT ![r] =
                       IF txn_i[r] + 1 = Len(txns) THEN "aggregate" ELSE "apply"]
          /\ UNCHANGED result
    /\ UNCHANGED <<now, cache, call, base_state, cloned_state, stats,
                   loader_calls, rankVars, frontVars>>

\* STEP 5, apply_transactions: one iteration of the loop
ApplyTxn(r) ==
    /\ pc[r] = "apply"
    /\ LET txns == call[r][1].transactions
           res == apply_transaction(lists, cloned_state[r][1], txns[txn_i[r] + 1])
       IN IF res.ok
          THEN /\ lists' = res.lists
               /\ txn_i' = [txn_i EXCEPT ![r] = @ + 1]
               /\ messages' = [messages EXCEPT ![r] = Append(@, res.message)]
               /\ pc' = [pc EXCEPT ![r] =
                            IF txn_i[r] + 1 = Len(txns) THEN "aggregate" ELSE "apply"]
               /\ UNCHANGED result
          ELSE /\ result' = [result EXCEPT ![r] = Some(ErrorResult(res.error))]
               /\ pc' = [pc EXCEPT ![r] = "done"]
               /\ UNCHANGED <<lists, txn_i, messages>>
    /\ UNCHANGED <<now, cache, call, base_state, cloned_state, stats,
                   loader_calls, rankVars, frontVars>>

\* STEP 6 to STEP 8: aggregate both metrics over the clone, rank the two
\* maps and build the response
AggregateAndRank(r) ==
    /\ pc[r] = "aggregate"
    /\ LET c == call[r][1]
           state == Contents(lists, cloned_state[r][1])
           hitting == aggregate_stats_from_state(state, c.hitter_metric)
           pitching == aggregate_stats_from_state(state, c.pitcher_metric)
           rk == rank_teams_from_aggregated_stats(
                    hitting, pitching, c.hitter_metric, c.pitcher_metric)
       IN /\ stats' = [stats EXCEPT ![r] =
                        Some([hitting |-> hitting, pitching |-> pitching])]
          /\ result' = [result EXCEPT ![r] = Some(build_response(rk, messages[r]))]
    /\ pc' = [pc EXCEPT ![r] = "done"]
    /\ UNCHANGED <<now, cache, lists, call, base_state, cloned_state, txn_i,
                   messages, loader_calls, rankVars, frontVars>>

\* The call returns: its locals, the clone among them, are dropped
Return(r) ==
    /\ pc[r] = "done"
    /\ pc' = [pc EXCEPT ![r] = "idle"]
    /\ call' = [call EXCEPT ![r] = None]
    /\ base_state' = [base_state EXCEPT ![r] = None]
    /\ cloned_state' = [cloned_state EXCEPT ![r] = None]
    /\ txn_i' = [txn_i EXCEPT ![r] = 0]
    /\ messages' = [messages EXCEPT ![r] = <<>>]
    /\ stats' = [stats EXCEPT ![r] = None]
    /\ loader_calls' = [loader_calls EXCEPT ![r] = 0]
    /\ result' = [result EXCEPT ![r] = None]
    /\ lists' = Gc(lists, cache, base_state', cloned_state')
    /\ UNCHANGED <<now, cache, rankVars, frontVars>>

\* ------------------------------------------------------------------------
\* Operator actions and time
\* ------------------------------------------------------------------------
\* invalidate_base_state_cache(season)
Invalidate ==
    /\ \E season \in Seasons :
          /\ cache[season] # None
          /\ cache' = invalidate_one(cache, season)
    /\ lists' = Gc(lists, cache', base_state, cloned_state)
    /\ UNCHANGED <<now, pc, call, base_state, cloned_state, txn_i, messages,
                   stats, loader_calls, result, rankVars, frontVars>>

\* invalidate_base_state_cache() without a season
InvalidateAll ==
    /\ \E season \in Seasons : cache[season] # None
    /\ cache' = invalidate_all(cache)
    /\ lists' = Gc(lists, cache', base_state, cloned_state)
    /\ UNCHANGED <<now, pc, call, base_state, cloned_state, txn_i, messages,
                   stats, loader_calls, result, rankVars, frontVars>>

\* Time passes
Tick ==
    /\ now < MaxTime
    /\ now' = now + 1
    /\ UNCHANGED <<cache, lists, pc, call, base_state, cloned_state, txn_i,
                   messages, stats, loader_calls, result, rankVars, frontVars>>

\* Concurrent request threads, an operator invalidating, time frozen (a
\* reload happens after an invalidation as it would after an expiry)
Next ==
    \/ \E r \in Reqs : StartRun(r, ConcurrentRuns)
    \/ \E r \in Reqs : StartGet(r, ConcurrentGets)
    \/ \E r \in Reqs : GetCheck(r)
    \/ \E r \in Reqs : LoadOk(r)
    \/ \E r \in Reqs : LoadFail(r)
    \/ \E r \in Reqs : Clone(r)
    \/ \E r \in Reqs : ApplyTxn(r)
    \/ \E r \in Reqs : AggregateAndRank(r)
    \/ \E r \in Reqs : Return(r)
    \/ Invalidate
    \/ InvalidateAll

Spec == Init /\ [][Next]_vars

\* One request thread running every simulation request of SingleRuns, with
\* direct get_base_state calls in between
NextTxn ==
    \/ StartRun(1, SingleRuns)
    \/ StartGet(1, GetCalls)
    \/ GetCheck(1)
    \/ LoadOk(1)
    \/ LoadFail(1)
    \/ Clone(1)
    \/ ApplyTxn(1)
    \/ AggregateAndRank(1)
    \/ Return(1)
    \/ Invalidate

SpecTxn == Init /\ [][NextTxn]_vars

\* Concurrent get_base_state calls, invalidations and the passing of time
NextCache ==
    \/ \E r \in Reqs : StartGet(r, GetCalls)
    \/ \E r \in Reqs : GetCheck(r)
    \/ \E r \in Reqs : LoadOk(r)
    \/ \E r \in Reqs : LoadFail(r)
    \/ \E r \in Reqs : Return(r)
    \/ Invalidate
    \/ InvalidateAll
    \/ Tick

SpecCache == Init /\ [][NextCache]_vars

\* ------------------------------------------------------------------------
\* Properties of the simulation engine
\* ------------------------------------------------------------------------
IsRun(r) == call[r] # None /\ call[r][1].op = "run"
IsGet(r) == call[r] # None /\ call[r][1].op = "get"

\* The rosters of the working copy of thread r
CloneContents(r) == Contents(lists, cloned_state[r][1])

\* apply_transactions on a private copy of the store's rosters, no other
\* thread around: the rosters after the longest applicable prefix of txns,
\* the messages, and the error that stopped it ("" when none did)
RECURSIVE AloneApply(_, _, _)
AloneApply(rosters, txns, msgs) ==
    IF txns = <<>>
    THEN [rosters |-> rosters, messages |-> msgs, error |-> ""]
    ELSE LET res == apply_transaction(rosters, [t \in DOMAIN rosters |-> t],
                                      Head(txns))
         IN IF res.ok
            THEN AloneApply(res.lists, Tail(txns), Append(msgs, res.message))
            ELSE [rosters |-> rosters, messages |-> msgs, error |-> res.error]

\* The response of run_simulation(c) executed alone with a working loader
AloneRun(c) ==
    LET applied == AloneApply(DB[c.season], c.transactions, <<>>)
    IN IF applied.error # ""
       THEN ErrorResult(applied.error)
       ELSE build_response(
                rank_teams_from_aggregated_stats(
                    aggregate_stats_from_state(applied.rosters, c.hitter_metric),
                    aggregate_stats_from_state(applied.rosters, c.pitcher_metric),
                    c.hitter_metric, c.pitcher_metric),
                applied.messages)

\* Every cached snapshot holds the rosters of the store
SnapshotsIntact ==
    \A s \in Seasons :
        cache[s] # None => Contents(lists, cache[s][1].state) = DB[s]

\* C1: whatever runs have executed or are executing, the snapshot cached for
\* a season holds the store's rosters, and so does the roster a completed
\* get_base_state returned: a traded player is still on the original team.
C1_CacheNeverMutated ==
    /\ SnapshotsIntact
    /\ \A r \in Reqs :
          pc[r] = "done" /\ IsGet(r) /\ result[r][1].status = "success" =>
             Contents(lists, result[r][1].base[1]) = DB[call[r][1].season]

C1_Witness ==
    \E r, g \in Reqs :
        /\ IsRun(r) /\ pc[r] = "done" /\ result[r][1].status = "success"
        /\ CloneContents(r) # DB[call[r][1].season]
        /\ IsGet(g) /\ pc[g] = "done" /\ result[g][1].status = "success"
        /\ call[g][1].season = call[r][1].season
        /\ loader_calls[g] = 0

\* C2: a run executing concurrently with others works on the rosters it would
\* have alone (its own transactions so far, nobody else's) and returns the
\* response it would return alone.
C2_RunsIsolated ==
    \A r \in Reqs :
        /\ pc[r] \in {"apply", "aggregate"} =>
              CloneContents(r) =
                 AloneApply(DB[call[r][1].season],
                            SubSeq(call[r][1].transactions, 1, txn_i[r]),
                            <<>>).rosters
        /\ pc[r] = "done" /\ IsRun(r) =>
              \/ result[r][1] = ErrorResult("DataUnavailable")
              \/ result[r][1] = AloneRun(call[r][1])

C2_Witness ==
    \E r, q \in Reqs :
        /\ r # q
        /\ IsRun(r) /\ IsRun(q)
        /\ call[r][1].season = call[q][1].season
        /\ pc[r] \in {"apply", "aggregate"} /\ txn_i[r] >= 1
        /\ pc[q] \in {"apply", "aggregate"} /\ txn_i[q] >= 1
        /\ CloneContents(r) # CloneContents(q)

\* A list that has a transaction naming an unknown player, and before it at
\* least one transaction that applies
ValidThenUnknownPlayer(c) ==
    LET applied == AloneApply(DB[c.season], c.transactions, <<>>)
    IN applied.error = "PlayerNotFound" /\ Len(applied.messages) >= 1

\* C3: a run whose list has a valid transaction and one naming an unknown
\* player returns an error without ranking or messages, and the valid trade
\* is seen by no snapshot, no get_base_state result and no later clone.
C3_Atomic ==
    /\ \A r \in Reqs :
          pc[r] = "done" /\ IsRun(r)
          /\ validate_metrics(call[r][1].hitter_metric, call[r][1].pitcher_metric) = ""
          /\ ValidThenUnknownPlayer(call[r][1])
          /\ result[r][1].error # "DataUnavailable" =>
             /\ result[r][1].status = "error"
             /\ result[r][1].error = "PlayerNotFound"
             /\ result[r][1].ranking = None
             /\ result[r][1].transaction_messages = <<>>
             /\ result[r][1].transactions_applied = 0
    /\ SnapshotsIntact
    /\ \A r \in Reqs :
          /\ pc[r] = "done" /\ IsGet(r) /\ result[r][1].status = "success" =>
                Contents(lists, result[r][1].base[1]) = DB[call[r][1].season]
          /\ pc[r] = "apply" /\ txn_i[r] = 0 =>
                CloneContents(r) = DB[call[r][1].season]

C3_Witness ==
    /\ pc[1] = "done" /\ IsRun(1)
    /\ ValidThenUnknownPlayer(call[1][1])
    /\ result[1][1].error = "PlayerNotFound"
    /\ CloneContents(1) # DB[call[1][1].season]
    /\ cache[call[1][1].season] # None

TotalPlayers(rosters) ==
    SumOver([t \in DOMAIN rosters |-> Len(rosters[t])], DOMAIN rosters)

\* Two names equal up to the case of their letters
SameLetter(a, b) ==
    \/ a = b
    \/ a \in 65..90 /\ b = a + 32
    \/ b \in 65..90 /\ a = b + 32

EqualIgnoringCase(x, y) ==
    Len(x) = Len(y) /\ \A i \in 1..Len(x) : SameLetter(x[i], y[i])

\* The transaction thread 1 is about to apply
CurrentTxn == call[1][1].transactions[txn_i[1] + 1]

\* C4: a transaction that applies takes exactly one player out of from_team's
\* roster and appends that player to to_team's roster; every other roster is
\* unchanged and the number of players is conserved.
C4_TradeFrame ==
    [][ pc[1] = "apply" /\ txn_i'[1] = txn_i[1] + 1 =>
          LET txn == CurrentTxn
              before == CloneContents(1)
              after == Contents(lists', cloned_state'[1][1])
          IN /\ DOMAIN after = DOMAIN before
             /\ \E i \in 1..Len(before[txn.from_team]) :
                   IF txn.from_team = txn.to_team
                   THEN after[txn.to_team] =
                           Append(RemoveAt(before[txn.from_team], i),
                                  before[txn.from_team][i])
                   ELSE /\ after[txn.from_team] = RemoveAt(before[txn.from_team], i)
                        /\ after[txn.to_team] =
                              Append(before[txn.to_team], before[txn.from_team][i])
             /\ \A t \in DOMAIN before \ {txn.from_team, txn.to_team} :
                   after[t] = before[t]
             /\ TotalPlayers(after) = TotalPlayers(before)
      ]_vars

C4_Witness ==
    /\ pc[1] = "aggregate"
    /\ call[1][1].season = 2024
    /\ CloneContents(1) =
          [LAD |-> <<P_Ohtani, P_smith>>, NYY |-> <<P_Judge, P_Kim, P_Smith>>]

\* C5: a transaction fails with TeamNotFound when from_team or to_team is not
\* a team of the clone, with PlayerNotFound when both are and no player of
\* from_team has the name up to letter case, and applies when one has.
C5_TransactionErrors ==
    [][ pc[1] = "apply" /\ (pc'[1] # pc[1] \/ txn_i'[1] # txn_i[1]) =>
          LET txn == CurrentTxn
              before == CloneContents(1)
              failed(kind) == pc'[1] = "done" /\ result'[1] = Some(ErrorResult(kind))
          IN IF txn.from_team \notin DOMAIN before \/ txn.to_team \notin DOMAIN before
             THEN failed("TeamNotFound")
             ELSE IF \A i \in 1..Len(before[txn.from_team]) :
                        ~EqualIgnoringCase(before[txn.from_team][i].player_name,
                                           txn.player_name)
             THEN failed("PlayerNotFound")
             ELSE /\ txn_i'[1] = txn_i[1] + 1
                  /\ pc'[1] # "done"
                  /\ LET to == Contents(lists', cloned_state'[1][1])[txn.to_team]
                     IN EqualIgnoringCase(to[Len(to)].player_name, txn.player_name)
      ]_vars

C5_Witness ==
    /\ pc[1] = "done" /\ IsRun(1)
    /\ result[1][1].error = "PlayerNotFound"
    /\ messages[1] = <<TradeMessage(Txn(Name_OH, "LAD", "NYY"))>>
    /\ P_Ohtani.player_name # Name_OH


\* The position filter of an aggregation, and the players of a roster that
\* pass it and have a value for the metric
PassesPositionFilter(p, metric) ==
    IF metric \in HITTING_METRICS
    THEN p.position_type \in HITTER_POSITION_TYPES
    ELSE p.position_type = "P"

MetricOf(p, metric) ==
    IF metric \in HITTING_METRICS THEN p.hitting_stats ELSE p.pitching_stats

Counted(roster, metric) ==
    {i \in 1..Len(roster) :
        /\ PassesPositionFilter(roster[i], metric)
        /\ \E e \in MetricOf(roster[i], metric) : e[1] = metric}

\* team_stats holds, for the rosters of state, the mean of the metric over
\* the counted players of each team, and no key for a team without one
IsAggregateOf(team_stats, state, metric) ==
    /\ DOMAIN team_stats \subseteq DOMAIN state
    /\ \A t \in DOMAIN state :
          LET E == Counted(state[t], metric)
              value == [i \in E |->
                          (CHOOSE e \in MetricOf(state[t][i], metric) :
                               e[1] = metric)[2]]
          IN IF E = {}
             THEN t \notin DOMAIN team_stats
             ELSE /\ t \in DOMAIN team_stats
                  /\ team_stats[t] * Cardinality(E) = AvgScale * SumOver(value, E)

\* C14: the two maps a run aggregates hold, for each team of its clone, the
\* mean of the metric over the players that pass the position filter and
\* have the metric; a player without the metric is skipped, a team without
\* such a player has no key.
C14_AggregateMean ==
    \A r \in Reqs :
        pc[r] = "done" /\ IsRun(r) /\ stats[r] # None =>
            /\ IsAggregateOf(stats[r][1].hitting, CloneContents(r),
                             call[r][1].hitter_metric)
            /\ IsAggregateOf(stats[r][1].pitching, CloneContents(r),
                             call[r][1].pitcher_metric)

C14_Witness ==
    \E r \in Reqs :
        /\ pc[r] = "done" /\ IsRun(r) /\ stats[r] # None
        /\ result[r][1].status = "success"
        /\ txn_i[r] >= 1
        /\ \E t \in DOMAIN CloneContents(r) :
              LET roster == CloneContents(r)[t]
                  metric == call[r][1].hitter_metric
              IN /\ Counted(roster, metric) # {}
                 /\ \E i \in 1..Len(roster) :
                       /\ PassesPositionFilter(roster[i], metric)
                       /\ i \notin Counted(roster, metric)
                 /\ \E i \in 1..Len(roster) :
                       ~PassesPositionFilter(roster[i], metric)
        /\ DOMAIN stats[r][1].pitching # DOMAIN CloneContents(r)

\* The log line of a transaction, as the response carries it
ExpectedMessage(txn) ==
    <<"Traded", txn.player_name, "from", txn.from_team, "to", txn.to_team>>

\* C16: a successful run reports status "success", as many applied
\* transactions as were supplied, and one "Traded {player} from {from_team}
\* to {to_team}" message per transaction in the supplied order.
C16_ResponseFields ==
    \A r \in Reqs :
        pc[r] = "done" /\ IsRun(r) /\ result[r][1].status = "success" =>
            LET txns == call[r][1].transactions
                res == result[r][1]
            IN /\ res.ranking # None
               /\ res.transactions_applied = Len(txns)
               /\ Len(res.transaction_messages) = Len(txns)
               /\ \A i \in 1..Len(txns) :
                     res.transaction_messages[i] = ExpectedMessage(txns[i])

C16_Witness ==
    \E r \in Reqs :
        /\ pc[r] = "done" /\ IsRun(r) /\ result[r][1].status = "success"
        /\ result[r][1].transactions_applied = 2
        /\ result[r][1].transaction_messages[1] # result[r][1].transaction_messages[2]
        /\ call[r][1].transactions[1].from_team # call[r][1].transactions[1].to_team

\* The outcome of applying txns one after the other to private copies of
\* rosters: the number applied before the first failure and its error
FirstFailure(rosters, txns) ==
    LET applied == AloneApply(rosters, txns, <<>>)
    IN [count |-> Len(applied.messages), error |-> applied.error]

\* C19: a step of the transaction loop attempts the next transaction in the
\* supplied order on the clone as the earlier ones left it; when it fails
\* the run ends there with that transaction's error, and a run that ended
\* with a transaction error applied exactly the transactions before the
\* first one that fails in sequence.
C19_OrderedStopAtFirstFailure ==
    [][ pc[1] = "apply" /\ (pc'[1] # pc[1] \/ txn_i'[1] # txn_i[1]) =>
          LET txns == call[1][1].transactions
              first == FirstFailure(DB[call[1][1].season], txns)
          IN /\ txn_i[1] <= first.count
             /\ IF txn_i[1] < first.count
                THEN /\ txn_i'[1] = txn_i[1] + 1
                     /\ messages'[1] = Append(messages[1], ExpectedMessage(txns[txn_i[1] + 1]))
                     /\ pc'[1] = IF txn_i'[1] = Len(txns) THEN "aggregate" ELSE "apply"
                     /\ Contents(lists', cloned_state'[1][1]) =
                           AloneApply(DB[call[1][1].season],
                                      SubSeq(txns, 1, txn_i[1] + 1), <<>>).rosters
                ELSE /\ first.error # ""
                     /\ pc'[1] = "done"
                     /\ result'[1] = Some(ErrorResult(first.error))
                     /\ txn_i'[1] = txn_i[1]
                     /\ Contents(lists', cloned_state'[1][1]) = CloneContents(1)
    ]_vars

C19_Witness ==
    /\ pc[1] = "done" /\ IsRun(1)
    /\ result[1][1].status = "error"
    /\ Len(call[1][1].transactions) = 2
    /\ cloned_state[1] # None
    /\ txn_i[1] = 0
    /\ apply_transaction(lists, cloned_state[1][1], call[1][1].transactions[2]).ok

\* A run whose metrics are not both in the catalogue
HasUnknownMetric(c) ==
    \/ c.hitter_metric \notin HITTING_METRICS
    \/ c.pitcher_metric \notin PITCHING_METRICS

\* C20: a run with a metric outside the catalogue ends at once with
\* UnknownMetric: its start leaves the cache and the heap as they were, and
\* it makes no loader call, no clone and applies no transaction.
C20_UnknownMetricFailsFast ==
    [][ \A r \in Reqs :
          pc[r] = "idle" /\ pc'[r] # "idle" /\ call'[r][1].op = "run"
             /\ HasUnknownMetric(call'[r][1]) =>
                /\ pc'[r] = "done"
                /\ result'[r] = Some(ErrorResult("UnknownMetric"))
                /\ loader_calls'[r] = 0
                /\ cloned_state'[r] = None
                /\ base_state'[r] = None
                /\ txn_i'[r] = 0
                /\ messages'[r] = <<>>
                /\ cache' = cache
                /\ lists' = lists
    ]_vars

C20_Witness ==
    \E r \in Reqs :
        /\ pc[r] = "done" /\ IsRun(r)
        /\ call[r][1].hitter_metric \in HITTING_METRICS
        /\ call[r][1].pitcher_metric \notin PITCHING_METRICS
        /\ result[r][1].error = "UnknownMetric"
        /\ cache[call[r][1].season] # None

\* ------------------------------------------------------------------------
\* Properties of the base state cache
\* ------------------------------------------------------------------------
\* The season's entry is right the one a load made at time t with result st
StoredAt(c, season, st, t) ==
    /\ c[season] # None
    /\ c[season][1].state = st
    /\ c[season][1].expires = t + CACHE_TTL

\* C6: get_base_state returns the stored snapshot without calling the loader
\* when the season has a live entry and force_refresh is off; otherwise it
\* calls the loader once, stores the loaded rosters under the season and
\* returns them.
C6_GetLoadsOnce ==
    [][ \A r \in Reqs :
          LET c == call[r][1]
              answered(calls) ==
                  /\ pc'[r] = "done"
                  /\ loader_calls'[r] = calls
                  /\ result'[r] # None
          IN /\ pc[r] = "fetch" /\ pc'[r] # "fetch" =>
                  IF Live(cache, c.season, now) /\ ~c.force_refresh
                  THEN /\ answered(0)
                       /\ result'[r][1] = GetResult(cache[c.season][1].state)
                       /\ cache' = cache
                  ELSE /\ pc'[r] = "load"
                       /\ loader_calls'[r] = 0
                       /\ cache' = cache
             /\ pc[r] = "load" /\ pc'[r] # "load" =>
                  /\ answered(1)
                  /\ result'[r][1].status = "success" =>
                        /\ StoredAt(cache', c.season, result'[r][1].base[1], now)
                        /\ Contents(lists', result'[r][1].base[1]) = DB[c.season]
                        /\ \A s \in Seasons \ {c.season} : cache'[s] = cache[s]
      ]_vars

C6_Witness ==
    \E r, q \in Reqs :
        /\ pc[r] = "done" /\ IsGet(r) /\ result[r][1].status = "success"
        /\ loader_calls[r] = 0
        /\ pc[q] = "done" /\ IsGet(q) /\ result[q][1].status = "success"
        /\ call[q][1].force_refresh /\ call[q][1].season = call[r][1].season
        /\ loader_calls[q] = 1

\* A step in which the loader of thread r raises
LoaderFails(r) ==
    /\ pc[r] = "load"
    /\ pc'[r] = "done"
    /\ result'[r] # None
    /\ result'[r][1].status = "error"

\* C7 as stated: once the loader has failed in a get, the call fails with
\* DataUnavailable and the season has no entry, so that the next get for the
\* season calls the loader again.
C7_Original ==
    [][ \A r \in Reqs :
          LoaderFails(r) =>
             /\ result'[r][1].error = "DataUnavailable"
             /\ ~get_base_state_hit(cache', call[r][1].season, FALSE, now')
      ]_vars

\* C7, amended: when the loader fails in a get, the call fails with
\* DataUnavailable after that one loader call and the cache is exactly what
\* it was before (nothing new or partial is stored); the next get for the
\* season calls the loader again unless a live entry was there already.
C7_FailureStoresNothing ==
    [][ \A r \in Reqs :
          LoaderFails(r) =>
             /\ result'[r][1] = ErrorResult("DataUnavailable")
             /\ loader_calls'[r] = 1
             /\ cache' = cache
             /\ ~Live(cache, call[r][1].season, now) =>
                   ~get_base_state_hit(cache', call[r][1].season, FALSE, now')
      ]_vars

C7_Witness ==
    \E r \in Reqs :
        /\ pc[r] = "done" /\ IsGet(r)
        /\ result[r][1].error = "DataUnavailable"
        /\ call[r][1].force_refresh
        /\ Live(cache, call[r][1].season, now)

\* C8: invalidate(season) removes that season's entry and no other,
\* invalidate() removes every entry, and a get that finds its season without
\* an entry goes to the loader.
C8_Invalidate ==
    [][ /\ Invalidate =>
             \E s \in Seasons :
                /\ cache[s] # None
                /\ cache'[s] = None
                /\ \A o \in Seasons \ {s} : cache'[o] = cache[o]
        /\ InvalidateAll => \A s \in Seasons : cache'[s] = None
        /\ \A r \in Reqs :
             pc[r] = "fetch" /\ pc'[r] # "fetch" /\ cache[call[r][1].season] = None =>
                pc'[r] = "load"
      ]_vars

C8_Witness ==
    \E r \in Reqs :
        /\ pc[r] = "load" /\ IsGet(r) /\ ~call[r][1].force_refresh
        /\ cache[call[r][1].season] = None
        /\ \E o \in Seasons \ {call[r][1].season} : Live(cache, o, now)
        /\ \E q \in Reqs \ {r} :
              /\ pc[q] = "done" /\ IsGet(q) /\ result[q][1].status = "success"
              /\ call[q][1].season = call[r][1].season

\* C21: a get is answered from the cache only while the season has an entry
\* that was stored less than CACHE_TTL ago (expires > now) and was not
\* invalidated; a get that finds the entry expired or gone goes to the
\* loader, which stores a fresh entry; and every snapshot a get returns is,
\* at that moment, the season's entry and not expired.
C21_TtlExpiry ==
    [][ \A r \in Reqs :
          LET c == call[r][1]
              entry == cache[c.season]
          IN /\ pc[r] = "fetch" /\ pc'[r] = "done" =>
                  /\ entry # None
                  /\ now < entry[1].expires
                  /\ loader_calls'[r] = 0
                  /\ result'[r][1] = GetResult(entry[1].state)
             /\ pc[r] = "fetch" /\ pc'[r] # "fetch"
                  /\ (entry = None \/ entry[1].expires <= now) =>
                     pc'[r] = "load" /\ result'[r] = None
             /\ pc[r] # "done" /\ pc'[r] = "done" /\ result'[r][1].status = "success" =>
                  /\ cache'[c.season] # None
                  /\ cache'[c.season][1].state = result'[r][1].base[1]
                  /\ now' < cache'[c.season][1].expires
                  /\ pc[r] = "load" => cache'[c.season][1].expires = now' + CACHE_TTL
      ]_vars

\* An unforced get has found the entry of its season expired and is on its
\* way to the loader, while another get was served before
C21_Witness ==
    \E r \in Reqs :
        /\ pc[r] = "load" /\ IsGet(r) /\ ~call[r][1].force_refresh
        /\ cache[call[r][1].season] # None
        /\ cache[call[r][1].season][1].expires <= now
        /\ \E q \in Reqs \ {r} :
              /\ pc[q] = "done" /\ IsGet(q) /\ result[q][1].status = "success"
              /\ call[q][1].season = call[r][1].season
              /\ loader_calls[q] = 0

\* The threads whose loader call for the season is in flight
LoadersInFlight(season) ==
    {r \in Reqs : pc[r] = "load" /\ call[r][1].season = season}

\* C22 as stated: at most one loader call per season is in flight
C22_Original ==
    \A season \in Seasons : Cardinality(LoadersInFlight(season)) <= 1

\* C22, amended: loads are not coalesced (every caller that misses calls
\* the loader itself, so as many loader calls for a season can be in flight
\* as there are callers), but each get calls the loader at most once and a
\* get whose load succeeds returns the rosters of its season as they are in
\* the database, whatever the other callers are doing.
C22_DuplicateLoadsHarmless ==
    \A r \in Reqs :
        /\ loader_calls[r] <= 1
        /\ pc[r] = "load" => loader_calls[r] = 0
        /\ pc[r] = "done" /\ IsGet(r) /\ result[r][1].status = "success" =>
              Contents(lists, result[r][1].base[1]) = DB[call[r][1].season]

\* Two gets missed the same season together, both called the loader and
\* both were answered
C22_Witness ==
    \E r, q \in Reqs :
        /\ r # q
        /\ pc[r] = "done" /\ IsGet(r) /\ result[r][1].status = "success"
        /\ pc[q] = "done" /\ IsGet(q) /\ result[q][1].status = "success"
        /\ call[r][1].season = call[q][1].season
        /\ ~call[r][1].force_refresh /\ ~call[q][1].force_refresh
        /\ loader_calls[r] = 1 /\ loader_calls[q] = 1
        /\ cache[call[r][1].season] # None
        /\ cache[call[r][1].season][1].expires = now + CACHE_TTL

\* ------------------------------------------------------------------------
\* Stand-alone ranking calls
\* ------------------------------------------------------------------------
RankTeams == {"BOS", "LAD", "NYY", "SEA"}

\* Every map from some of the teams to a value in 0..MaxStat
TeamStatMaps == UNION {[T -> 0..MaxStat] : T \in SUBSET RankTeams}

HittingMaps ==
    { [t \in RankTeams |-> 1],
      [t \in {"BOS", "LAD", "NYY"} |->
            IF t = "BOS" THEN 0 ELSE IF t = "LAD" THEN 2 ELSE 1],
      [t \in {"LAD", "NYY"} |-> IF t = "LAD" THEN 2 ELSE 0],
      [t \in {"BOS", "NYY"} |-> IF t = "BOS" THEN 2 ELSE 0] }

RankInputs ==
    [hitting_stats : HittingMaps, pitching_stats : TeamStatMaps,
     hitter_metric : {"ops", "hr"}, pitcher_metric : PITCHING_METRICS]

InitRank ==
    /\ InitSim
    /\ rk_in \in {Some(i) : i \in RankInputs}
    /\ rk_out = None
    /\ rk_prev = None
    /\ InitFront

\* rank_teams_from_aggregated_stats is called on the drawn input, and then
\* once more on the same input
RankCall ==
    /\ rk_in # None
    /\ rk_prev = None
    /\ rk_prev' = rk_out
    /\ rk_out' = Some(rank_teams_from_aggregated_stats(
                        rk_in[1].hitting_stats, rk_in[1].pitching_stats,
                        rk_in[1].hitter_metric, rk_in[1].pitcher_metric))
    /\ UNCHANGED <<rk_in, simVars, frontVars>>

NextRank == RankCall

SpecRank == InitRank /\ [][NextRank]_vars

\* ------------------------------------------------------------------------
\* Properties of the ranking
\* ------------------------------------------------------------------------
Ranked == rk_out # None /\ rk_out[1].status = "success"

\* The catalogue marks the metric as lower-is-better
LowerIsBetter(metric) ==
    metric \in DOMAIN METRIC_DIRECTION /\ ~METRIC_DIRECTION[metric]

\* The entries of a ranking, both leagues together
Entries(rk) == {rk.AL[i] : i \in 1..Len(rk.AL)} \cup {rk.NL[i] : i \in 1..Len(rk.NL)}

\* a/b < c/d for fractions with positive denominators
FracLess(x, y) == x[1] * y[2] < y[1] * x[2]

\* C9: for a lower-is-better metric (era, whip, l, bb), of two ranked teams
\* the one with the smaller raw value has a normalized Z-score at least as
\* large as the other's.
C9_DirectionFlip ==
    Ranked /\ LowerIsBetter(rk_in[1].pitcher_metric) =>
        \A a, b \in Entries(rk_out[1]) :
            FracLess(a.pitcher_value, b.pitcher_value) =>
                a.pitcher_z_score >= b.pitcher_z_score

C9_Witness ==
    /\ Ranked
    /\ rk_in[1].pitcher_metric = "bb"
    /\ \E a, b \in Entries(rk_out[1]) :
            /\ FracLess(a.pitcher_value, b.pitcher_value)
            /\ a.pitcher_z_score > 0
            /\ b.pitcher_z_score < 0

SameValues(team_stats) ==
    /\ DOMAIN team_stats # {}
    /\ \A t, u \in DOMAIN team_stats : team_stats[t] = team_stats[u]

\* C10: when all teams share one value for a metric, the ranking completes
\* without an error and every team's Z-score for that metric is 0.
C10_ZeroVariance ==
    rk_out # None =>
        /\ SameValues(rk_in[1].pitching_stats) =>
                /\ rk_out[1].status = "success"
                /\ \A e \in Entries(rk_out[1]) : e.pitcher_z_score = 0
        /\ SameValues(rk_in[1].hitting_stats) /\ DOMAIN rk_in[1].pitching_stats # {} =>
                /\ rk_out[1].status = "success"
                /\ \A e \in Entries(rk_out[1]) : e.hitter_z_score = 0

C10_Witness ==
    /\ Ranked
    /\ SameValues(rk_in[1].pitching_stats)
    /\ Cardinality(DOMAIN rk_in[1].pitching_stats) >= 3
    /\ \E e \in Entries(rk_out[1]) : e.score # 0

\* The teams handed to the ranking call, and whether both maps have a team
InputTeams == (DOMAIN rk_in[1].hitting_stats) \cup (DOMAIN rk_in[1].pitching_stats)
BothMapsPopulated ==
    DOMAIN rk_in[1].hitting_stats # {} /\ DOMAIN rk_in[1].pitching_stats # {}

\* The fraction frac is the mean of the values of team_stats
IsMeanOf(frac, team_stats) ==
    frac[1] * Cardinality(DOMAIN team_stats) =
        frac[2] * SumOver(team_stats, DOMAIN team_stats)

\* C11: when each metric has a value for at least one team, the ranking
\* succeeds, and a team that has no value for one metric is ranked with
\* Z-score 0 and the league mean as its raw value for that metric.
C11_MissingDataDefault ==
    rk_out # None /\ BothMapsPopulated =>
        /\ rk_out[1].status = "success"
        /\ \A t \in InputTeams \ DOMAIN rk_in[1].hitting_stats :
              \E e \in Entries(rk_out[1]) :
                  /\ e.team_name = t
                  /\ e.hitter_z_score = 0
                  /\ IsMeanOf(e.hitter_value, rk_in[1].hitting_stats)
        /\ \A t \in InputTeams \ DOMAIN rk_in[1].pitching_stats :
              \E e \in Entries(rk_out[1]) :
                  /\ e.team_name = t
                  /\ e.pitcher_z_score = 0
                  /\ IsMeanOf(e.pitcher_value, rk_in[1].pitching_stats)

C11_Witness ==
    /\ Ranked
    /\ \E e, f \in Entries(rk_out[1]) :
          /\ e.team_name \notin DOMAIN rk_in[1].hitting_stats
          /\ e.hitter_z_score = 0
          /\ e.hitter_value[1] # 0
          /\ e.pitcher_z_score # 0
          /\ f.hitter_z_score # 0

\* The entries of one league's list
LeagueLists(rk) == {rk.AL, rk.NL}

Occurrences(list, t) == Cardinality({i \in 1..Len(list) : list[i].team_name = t})

\* C13: every input team occurs exactly once in the output, in the league
\* the lookup table gives it or in NL when the table does not have it, no
\* other team occurs, and a team missing from the table causes no error.
C13_LeagueSplit ==
    rk_out # None /\ BothMapsPopulated =>
        /\ rk_out[1].status = "success"
        /\ \A e \in Entries(rk_out[1]) : e.team_name \in InputTeams
        /\ \A t \in InputTeams :
              /\ Occurrences(rk_out[1].AL, t) + Occurrences(rk_out[1].NL, t) = 1
              /\ IF t \in DOMAIN TEAM_LEAGUE_MAP
                 THEN /\ TEAM_LEAGUE_MAP[t] = "AL" => Occurrences(rk_out[1].AL, t) = 1
                      /\ TEAM_LEAGUE_MAP[t] = "NL" => Occurrences(rk_out[1].NL, t) = 1
                 ELSE Occurrences(rk_out[1].NL, t) = 1

C13_Witness ==
    /\ Ranked
    /\ InputTeams \ DOMAIN TEAM_LEAGUE_MAP # {}
    /\ \E i \in 1..Len(rk_out[1].NL) :
          rk_out[1].NL[i].team_name \notin DOMAIN TEAM_LEAGUE_MAP
    /\ Len(rk_out[1].AL) >= 1
    /\ Len(rk_out[1].NL) >= 2

\* C23: in each league list the score of every entry is the sum of its two
\* normalized z-scores, the scores do not increase down the list, and the
\* rank of the i-th entry is i.
C23_RankOrder ==
    Ranked =>
        \A list \in LeagueLists(rk_out[1]) :
            /\ \A i \in 1..Len(list) :
                  /\ list[i].score = list[i].hitter_z_score + list[i].pitcher_z_score
                  /\ list[i].rank = i
            /\ \A i \in 1..(Len(list) - 1) : list[i].score >= list[i + 1].score

\* Two teams in each league, all four scores different and the leagues
\* interleaved in the overall order
C23_Witness ==
    /\ Ranked
    /\ LET al == rk_out[1].AL
           nl == rk_out[1].NL
       IN /\ Len(al) = 2 /\ Len(nl) = 2
          /\ nl[1].score > al[1].score
          /\ al[1].score > nl[2].score
          /\ nl[2].score > al[2].score
          /\ al[2].rank = 2 /\ nl[2].rank = 2

\* ------------------------------------------------------------------------
\* Monte Carlo win probability (Team mode)
\* ------------------------------------------------------------------------
\* What np.random.normal can return, as far as comparisons go
SampleValues == {0, 1}

\* A trial that counts a draw for team A
count_trial_with_ties(team_a_wins, score_a, score_b) ==
    IF score_a >= score_b THEN team_a_wins + 1 ELSE team_a_wins

\* if score_a > score_b: team_a_wins += 1
count_trial(team_a_wins, score_a, score_b) ==
    IF score_a > score_b THEN team_a_wins + 1 ELSE team_a_wins

\* The two percentages as fractions <<numerator, denominator>>:
\* (team_a_wins / trials) * 100 and its complement
win_percentages(team_a_wins, trials) ==
    [prob_a |-> <<100 * team_a_wins, trials>>,
     prob_b |-> <<100 * trials - 100 * team_a_wins, trials>>]

InitMC ==
    /\ InitSim
    /\ rk_in = None /\ rk_out = None /\ rk_prev = None
    /\ wp = None
    /\ InitHook
    /\ InitApp
    /\ mc \in {Some([trials |-> n, draws |-> <<>>, team_a_wins |-> 0, out |-> None]) :
                 n \in 1..MaxTrials}

\* One iteration of the loop: a sample per team, then the comparison
MCTrial ==
    /\ mc # None
    /\ Len(mc[1].draws) < mc[1].trials
    /\ \E score_a, score_b \in SampleValues :
          mc' = Some([mc[1] EXCEPT
                        !.draws = Append(@, <<score_a, score_b>>),
                        !.team_a_wins = count_trial(@, score_a, score_b)])
    /\ UNCHANGED <<simVars, rankVars, wp, hookVars, appVars>>

\* The loop is over: the estimate is returned
MCReturn ==
    /\ mc # None
    /\ Len(mc[1].draws) = mc[1].trials
    /\ mc[1].out = None
    /\ mc' = Some([mc[1] EXCEPT
                     !.out = Some(win_percentages(mc[1].team_a_wins, mc[1].trials))])
    /\ UNCHANGED <<simVars, rankVars, wp, hookVars, appVars>>

NextMC ==
    \/ MCTrial
    \/ MCReturn

SpecMC == InitMC /\ [][NextMC]_vars

\* The trials of the estimate in which team A's sample exceeded team B's
TrialsWonByA ==
    Cardinality({k \in 1..Len(mc[1].draws) : mc[1].draws[k][1] > mc[1].draws[k][2]})

\* C15: the estimate returns prob_a = 100 * (trials in which A's sample
\* exceeded B's) / trials and prob_b = 100 - prob_a, so both lie in [0, 100]
\* and sum to 100 whatever the draws were.
C15_MonteCarloBounds ==
    mc # None /\ mc[1].out # None =>
        LET a == mc[1].out[1].prob_a
            b == mc[1].out[1].prob_b
        IN /\ a[2] > 0 /\ b[2] > 0
           /\ a[1] * mc[1].trials = 100 * TrialsWonByA * a[2]
           /\ a[1] * b[2] + b[1] * a[2] = 100 * a[2] * b[2]
           /\ 0 <= a[1] /\ a[1] <= 100 * a[2]
           /\ 0 <= b[1] /\ b[1] <= 100 * b[2]

C15_Witness ==
    /\ mc # None /\ mc[1].out # None
    /\ mc[1].trials = 3
    /\ TrialsWonByA = 1
    /\ \E k \in 1..3 : mc[1].draws[k][1] = mc[1].draws[k][2]
    /\ \E k \in 1..3 : mc[1].draws[k][1] < mc[1].draws[k][2]

\* ------------------------------------------------------------------------
\* Win probability from player ratings (Player mode), ComputeTeamStat.ts
\* ------------------------------------------------------------------------
\* Ratings of the players of the model
Ratings == {0, 1, 31}

\* Every roster of at most MaxRoster players
RatedPlayers == [rating : Ratings]
Rosters == UNION {[1..n -> RatedPlayers] : n \in 0..MaxRoster}

\* epsilon = 1e-6 is 1 / EpsilonInverse
EpsilonInverse == 1000000

\* The decimal digits that EpsilonInverse * 10000 shifts a numerator by
ShiftDigits == 10

\* A rating that only counts the players
computeTeamRatingCount(players) == Len(players)

\* computeTeamRating(players): the sum of the ratings
RECURSIVE computeTeamRating(_)
computeTeamRating(players) ==
    IF players = <<>> THEN 0
    ELSE Head(players).rating + computeTeamRating(Tail(players))

\* Long division: quotient and remainder of (r * 10^k) by d, for r < d
RECURSIVE LongDivide(_, _, _, _)
LongDivide(q, r, d, k) ==
    IF k = 0 THEN [quot |-> q, rem |-> r]
    ELSE LongDivide(q * 10 + (r * 10) \div d, (r * 10) % d, d, k - 1)

\* Math.round((rating / totalBoth) * 10000) with
\* totalBoth = ratingA + ratingB + epsilon, computed exactly
RoundedShare(rating, ratingA, ratingB) ==
    LET d == (ratingA + ratingB) * EpsilonInverse + 1
        x == LongDivide(0, rating, d, ShiftDigits)
    IN IF 2 * x.rem >= d THEN x.quot + 1 ELSE x.quot

\* computeWinProbability(playersA, playersB); the two results are in
\* hundredths of a percent (the code divides the rounded value by 100)
computeWinProbability(playersA, playersB) ==
    LET ratingA == computeTeamRating(playersA)
        ratingB == computeTeamRating(playersB)
    IN [teamAWinProb |-> RoundedShare(ratingA, ratingA, ratingB),
        teamBWinProb |-> RoundedShare(ratingB, ratingA, ratingB)]

InitProb ==
    /\ InitSim
    /\ rk_in = None /\ rk_out = None /\ rk_prev = None
    /\ mc = None
    /\ InitHook
    /\ InitApp
    /\ wp \in {Some([rosterA |-> a, rosterB |-> b, out |-> None]) :
                 a \in Rosters, b \in Rosters}

\* A render in Player mode computes the two probabilities
ComputeProb ==
    /\ wp # None
    /\ wp[1].out = None
    /\ wp' = Some([wp[1] EXCEPT
                     !.out = Some(computeWinProbability(wp[1].rosterA, wp[1].rosterB))])
    /\ UNCHANGED <<simVars, rankVars, mc, hookVars, appVars>>

NextProb == ComputeProb

SpecProb == InitProb /\ [][NextProb]_vars

\* The sum of the ratings of a roster
RatingSum(roster) ==
    SumOver([i \in 1..Len(roster) |-> roster[i].rating], 1..Len(roster))

UiTeams ==
    {[id |-> 147, name |-> "NYY"], [id |-> 111, name |-> "BOS"],
     [id |-> 119, name |-> "LAD"]}

\* The metrics of the two selection menus (two of the three options each)
HitterStats == {"ops", "avg"}
PitcherStats == {"era", "whip"}

\* CALCULATION_METRIC_MAP: the field of a player's Rating object that a
\* selected metric is computed from
CALCULATION_METRIC_MAP ==
    [ops |-> "OPS_plus", avg |-> "AVG_normalized",
     era |-> "ERA_plus", whip |-> "WHIP_normalized"]

\* What POST /matchup/ answers for a team: id, name, position and Rating
\* object of each player; the data hold no player of LAD
MatchupResponse(teamName) ==
    IF teamName = "NYY"
    THEN << [id |-> 1, name |-> "Judge", position |-> "RF",
             Rating |-> [OPS_plus |-> 31, AVG_normalized |-> 1]] >>
    ELSE IF teamName = "BOS"
    THEN << [id |-> 2, name |-> "Sale", position |-> "Pitcher",
             Rating |-> [ERA_plus |-> 1]] >>
    ELSE << >>

\* mapRawToPlayer(item, hitterMetric, pitcherMetric): a pitcher is rated by
\* the pitcher metric, everyone else by the hitter metric
mapRawToPlayer(item, hitterMetric, pitcherMetric) ==
    LET isPitcher == item.position \in {"Pitcher", "P"}
        calculationField ==
            IF isPitcher THEN CALCULATION_METRIC_MAP[pitcherMetric]
            ELSE CALCULATION_METRIC_MAP[hitterMetric]
    IN [id |-> item.id,
        name |-> item.name,
        position |-> item.position,
        rating |-> IF calculationField \in DOMAIN item.Rating
                   THEN item.Rating[calculationField] ELSE 0]

\* getRoster(teamId, teamName, hitterMetric, pitcherMetric): the results it
\* can return; every error path returns the empty list
getRoster(teamId, teamName, hitterMetric, pitcherMetric) ==
    IF teamName = "" THEN {<<>>}
    ELSE LET raw == MatchupResponse(teamName)
         IN {<<>>,
             [i \in 1..Len(raw) |-> mapRawToPlayer(raw[i], hitterMetric, pitcherMetric)]}

\* A getRoster call that a handler is waiting for.  kind "select" is the
\* call of handleTeamSelect, kind "stat" a call of a metric handler; next
\* holds the team of side B that a metric handler reloads afterwards.
Fetch(kind, side, teamId, teamName, hitter, pitcher, next) ==
    [kind |-> kind, side |-> side, teamId |-> teamId, teamName |-> teamName,
     hitter |-> hitter, pitcher |-> pitcher, next |-> next]

\* teamAId && teamA !== default name, and the same for side B
SelectedA == teamAId # None /\ teamAId[1] # 0 /\ teamA # DefaultTeamA
SelectedB == teamBId # None /\ teamBId[1] # 0 /\ teamB # DefaultTeamB

\* handleTeamSelect(side, teamId, teamName) up to its await; teamName is
\* never empty because confirmSelection looks the name up in the team list
handleTeamSelect(side, teamId, teamName) ==
    Fetch("select", side, teamId, teamName, hitterStat, pitcherStat, None)

\* confirmSelection of the team modal: two different teams were picked, the
\* first goes to side A and the second to side B
confirmSelection ==
    /\ started < MaxLoads
    /\ started' = started + 1
    /\ \E t0, t1 \in UiTeams :
          /\ t0.id # t1.id
          /\ fetches' = fetches \cup {handleTeamSelect("A", t0.id, t0.name),
                                      handleTeamSelect("B", t1.id, t1.name)}
          /\ handedOver' = <<[side |-> "A", teamId |-> t0.id, teamName |-> t0.name],
                             [side |-> "B", teamId |-> t1.id, teamName |-> t1.name]>>
    /\ UNCHANGED <<teamA, teamB, rosterA, rosterB, originalRosterA,
                   originalRosterB, teamAId, teamBId, hitterStat, pitcherStat,
                   lastLoaded, moveLog>>
    /\ UNCHANGED <<mode, transactions, playerSim, playerSimResult, teamStat,
                   isSimulating, simRequests, showResults, simulationResults,
                   simOutcome, selectedTeams, modalOpen>>
    /\ UNCHANGED <<simVars, rankVars, mc, wp>>

\* The calls a metric handler makes for the teams it saw when it was
\* called: side A first, side B after side A has answered
StatFetches(hitter, pitcher) ==
    LET forB == Fetch("stat", "B", teamBId[1], teamB, hitter, pitcher, None)
    IN IF SelectedA
       THEN {Fetch("stat", "A", teamAId[1], teamA, hitter, pitcher,
                   IF SelectedB THEN Some(forB) ELSE None)}
       ELSE IF SelectedB THEN {forB} ELSE {}

\* handleHitterStatChange(newStat) up to its first await
handleHitterStatChange ==
    /\ started < MaxLoads
    /\ started' = started + 1
    /\ \E newStat \in HitterStats \ {hitterStat} :
          /\ hitterStat' = newStat
          /\ fetches' = fetches \cup StatFetches(newStat, pitcherStat)
    /\ UNCHANGED <<teamA, teamB, rosterA, rosterB, originalRosterA,
                   originalRosterB, teamAId, teamBId, pitcherStat, lastLoaded,
                   moveLog>>
    /\ UNCHANGED <<simVars, rankVars, mc, wp, appVars>>

\* handlePitcherStatChange(newStat) up to its first await
handlePitcherStatChange ==
    /\ started < MaxLoads
    /\ started' = started + 1
    /\ \E newStat \in PitcherStats \ {pitcherStat} :
          /\ pitcherStat' = newStat
          /\ fetches' = fetches \cup StatFetches(hitterStat, newStat)
    /\ UNCHANGED <<teamA, teamB, rosterA, rosterB, originalRosterA,
                   originalRosterB, teamAId, teamBId, hitterStat, lastLoaded,
                   moveLog>>
    /\ UNCHANGED <<simVars, rankVars, mc, wp, appVars>>

\* An update of side A that shows the roster but does not keep it as the
\* original
StoreAKeepingOriginal(f, roster) ==
    /\ rosterA' = roster
    /\ IF f.kind = "select"
       THEN teamA' = f.teamName /\ teamAId' = Some(f.teamId)
       ELSE UNCHANGED <<teamA, teamAId>>
    /\ UNCHANGED <<originalRosterA, teamB, rosterB, originalRosterB, teamBId>>

\* The state updates after an await on side A
StoreA(f, roster) ==
    /\ rosterA' = roster
    /\ originalRosterA' = roster
    /\ IF f.kind = "select"
       THEN teamA' = f.teamName /\ teamAId' = Some(f.teamId)
       ELSE UNCHANGED <<teamA, teamAId>>
    /\ UNCHANGED <<teamB, rosterB, originalRosterB, teamBId>>

\* The state updates after an await on side B
StoreB(f, roster) ==
    /\ rosterB' = roster
    /\ originalRosterB' = roster
    /\ IF f.kind = "select"
       THEN teamB' = f.teamName /\ teamBId' = Some(f.teamId)
       ELSE UNCHANGED <<teamB, teamBId>>
    /\ UNCHANGED <<teamA, rosterA, originalRosterA, teamAId>>

\* A getRoster call returns and its handler runs on to its next await or to
\* its end
getRosterReturns ==
    /\ \E f \in fetches :
         \E roster \in getRoster(f.teamId, f.teamName, f.hitter, f.pitcher) :
            /\ IF f.side = "A" THEN StoreA(f, roster) ELSE StoreB(f, roster)
            /\ fetches' = (fetches \ {f}) \cup
                          (IF f.next = None THEN {} ELSE {f.next[1]})
            /\ lastLoaded' = [lastLoaded EXCEPT ![f.side] =
                                Some([teamName |-> f.teamName, hitter |-> f.hitter,
                                      pitcher |-> f.pitcher, roster |-> roster])]
    /\ moveLog' = "none"
    /\ UNCHANGED <<hitterStat, pitcherStat, started>>
    /\ UNCHANGED <<simVars, rankVars, mc, wp, appVars>>

\* A filter that removes nobody
KeepingPlayer(prev, player) == prev

\* prev.filter(p => String(p.id) !== String(player.id))
WithoutPlayer(prev, player) == SelectSeq(prev, LAMBDA p : p.id # player.id)

\* movePlayer(player, sourceTeam, targetTeam)
movePlayer(player, sourceTeam, targetTeam) ==
    /\ IF sourceTeam = targetTeam
       THEN UNCHANGED <<rosterA, rosterB>>
       ELSE IF sourceTeam = teamA /\ targetTeam = teamB
       THEN /\ rosterA' = WithoutPlayer(rosterA, player)
            /\ rosterB' = Append(rosterB, player)
       ELSE IF sourceTeam = teamB /\ targetTeam = teamA
       THEN /\ rosterB' = WithoutPlayer(rosterB, player)
            /\ rosterA' = Append(rosterA, player)
       ELSE UNCHANGED <<rosterA, rosterB>>
    /\ moveLog' = IF <<rosterA', rosterB'>> # <<rosterA, rosterB>>
                  THEN "moved" ELSE moveLog
    /\ UNCHANGED <<teamA, teamB, originalRosterA, originalRosterB, teamAId,
                   teamBId, hitterStat, pitcherStat, fetches, lastLoaded,
                   started>>

\* A card of one panel is dropped on the other panel
DropPlayer ==
    /\ \/ \E i \in 1..Len(rosterA) : movePlayer(rosterA[i], teamA, teamB)
       \/ \E i \in 1..Len(rosterB) : movePlayer(rosterB[i], teamB, teamA)
    /\ UNCHANGED <<simVars, rankVars, mc, wp, appVars>>

\* resetRosters()
resetRosters ==
    /\ rosterA' = originalRosterA
    /\ rosterB' = originalRosterB
    /\ moveLog' = IF moveLog = "moved" THEN "undone" ELSE "none"
    /\ UNCHANGED <<teamA, teamB, originalRosterA, originalRosterB, teamAId,
                   teamBId, hitterStat, pitcherStat, fetches, lastLoaded,
                   started>>
    /\ UNCHANGED <<simVars, rankVars, mc, wp, appVars>>

InitHookSpec ==
    /\ InitSim
    /\ rk_in = None /\ rk_out = None /\ rk_prev = None
    /\ InitFront

NextHook ==
    \/ confirmSelection
    \/ handleHitterStatChange
    \/ handlePitcherStatChange
    \/ getRosterReturns
    \/ DropPlayer
    \/ resetRosters

SpecHook == InitHookSpec /\ [][NextHook]_vars

\* The roster that side `side` holds after a reset
RosterOfSide(side) == IF side = "A" THEN rosterA ELSE rosterB
TeamOfSide(side) == IF side = "A" THEN teamA ELSE teamB

\* The players of the two rosters, by id
IdsOf(roster) == {roster[i].id : i \in 1..Len(roster)}

\* C17: resetRosters makes rosterA and rosterB equal to the rosters that
\* the last getRoster answers stored on each side (empty while nothing was
\* loaded), whatever moves were made since; when that answer was the
\* successful one for the team and metrics now selected, the side holds
\* exactly that team's players rated by those metrics.
C17_ResetRestoresLoaded ==
    [][resetRosters =>
         \A side \in {"A", "B"} :
            /\ lastLoaded[side] = None => RosterOfSide(side)' = <<>>
            /\ lastLoaded[side] # None =>
                  /\ RosterOfSide(side)' = lastLoaded[side][1].roster
                  /\ ( /\ lastLoaded[side][1].teamName = TeamOfSide(side)
                       /\ lastLoaded[side][1].hitter = hitterStat
                       /\ lastLoaded[side][1].pitcher = pitcherStat
                       /\ lastLoaded[side][1].roster # <<>> )
                     => LET raw == MatchupResponse(TeamOfSide(side))
                        IN RosterOfSide(side)' =
                             [i \in 1..Len(raw) |->
                                mapRawToPlayer(raw[i], hitterStat, pitcherStat)]
    ]_vars

\* Both teams are loaded, a player was moved, and the reset has put every
\* player back
C17_Witness ==
    /\ moveLog = "undone"
    /\ fetches = {}
    /\ teamA = "NYY" /\ teamB = "BOS"
    /\ hitterStat = "avg"
    /\ lastLoaded["A"] # None /\ lastLoaded["B"] # None
    /\ lastLoaded["A"][1].roster # <<>> /\ lastLoaded["B"][1].roster # <<>>
    /\ rosterA = lastLoaded["A"][1].roster
    /\ rosterB = lastLoaded["B"][1].roster
    /\ IdsOf(rosterA) = {1} /\ IdsOf(rosterB) = {2}

\* ------------------------------------------------------------------------
\* The arena of Player mode: drag and drop, the pending transactions and
\* the season simulation that sends them
\* ------------------------------------------------------------------------
\* The composite key of getUniqueTransactions
TransactionKey(item) == <<item.player_name, item.position, item.from_team>>

\* getUniqueTransactions(list): a Map keyed by player, position and source
\* team; set() on a key that is already there replaces the value and leaves
\* the key where it was first inserted
getUniqueTransactions(list) ==
    LET n == Len(list)
        IsFirst(i) == \A j \in 1..(i - 1) : TransactionKey(list[j]) # TransactionKey(list[i])
        LastOf(i) == CHOOSE j \in i..n :
                        /\ TransactionKey(list[j]) = TransactionKey(list[i])
                        /\ \A k \in (j + 1)..n : TransactionKey(list[k]) # TransactionKey(list[i])
        firsts == SelectSeq([i \in 1..n |-> i], IsFirst)
    IN [m \in 1..Len(firsts) |-> list[LastOf(firsts[m])]]

\* UISlider: the switch between Team mode and Player mode
setMode ==
    /\ mode' = IF mode = "Team" THEN "Player" ELSE "Team"
    /\ UNCHANGED <<transactions, playerSim, playerSimResult, teamStat,
                   isSimulating, simRequests, showResults, simulationResults,
                   simOutcome, selectedTeams, modalOpen, handedOver>>
    /\ UNCHANGED <<simVars, rankVars, mc, wp, hookVars>>

\* handleDrop(e, teamName): the card of a player of one panel is dropped on
\* a panel; the player is moved and the move is logged
handleDrop ==
    /\ mode = "Player"
    /\ \E source, target \in {"A", "B"} :
         \E i \in 1..Len(RosterOfSide(source)) :
            LET data == RosterOfSide(source)[i]
                sourceTeam == TeamOfSide(source)
                targetTeam == TeamOfSide(target)
                p == [id |-> data.id, name |-> data.name,
                      rating |-> data.rating, position |-> data.position]
                transaction == [player_name |-> p.name, position |-> p.position,
                                from_team |-> sourceTeam, to_team |-> targetTeam]
            IN /\ ~(sourceTeam # "" /\ sourceTeam = targetTeam)
               /\ movePlayer(p, sourceTeam, targetTeam)
               /\ transactions' = getUniqueTransactions(Append(transactions, transaction))
    /\ UNCHANGED <<mode, playerSim, playerSimResult, teamStat, isSimulating,
                   simRequests, showResults, simulationResults, simOutcome, selectedTeams,
                   modalOpen, handedOver>>
    /\ UNCHANGED <<simVars, rankVars, mc, wp>>

\* What the ranking endpoints answer when they succeed: per league the
\* teams in rank order, each with its score
RankingResponse ==
    [NL |-> << <<"LAD", 3>> >>, AL |-> << <<"NYY", 5>>, <<"BOS", 4>> >>]

\* data.NL.map(item => item[0]) and the TeamSeasonResult objects made of it
SeasonResultOf(data) ==
    LET Teams(league) == [i \in 1..Len(league) |-> [team |-> league[i][1], rank |-> i]]
    IN [NL |-> Teams(data.NL), AL |-> Teams(data.AL)]

\* runPlayerModeSeasonSimulation(hitterMetric, pitcherMetric, transactions,
\* setTransactions) up to its await fetch: the simulation endpoint when
\* transactions are pending, the plain ranking otherwise.  The caller is
\* the simulate button of Player mode, which starts one run at a time.
runPlayerModeSeasonSimulation ==
    /\ mode = "Player"
    /\ playerSim = {}
    /\ playerSim' =
         {IF Len(transactions) # 0
          THEN [url |-> "/simulation/ranking/",
                payload |-> [hitter_metric |-> hitterStat, pitcher_metric |-> pitcherStat,
                             season |-> "2025", transactions |-> transactions]]
          ELSE [url |-> "/ranking/",
                payload |-> [hitter_metric |-> hitterStat, pitcher_metric |-> pitcherStat]]}
    /\ playerSimResult' = None
    /\ UNCHANGED <<mode, transactions, teamStat, isSimulating, simRequests,
                   showResults, simulationResults, simOutcome, selectedTeams, modalOpen,
                   handedOver>>
    /\ UNCHANGED <<simVars, rankVars, mc, wp, hookVars>>

\* The outcomes of the fetch and of reading its answer: an OK response with
\* rankings, a response that is not OK, or an exception (the network fails,
\* the body is not JSON, a league is missing)
FetchOutcomes == {"ok", "not_ok", "thrown"}

\* A version that clears the transactions however the request ends
playerSimReturnsClearing ==
    /\ \E req \in playerSim, outcome \in FetchOutcomes :
          /\ playerSim' = playerSim \ {req}
          /\ transactions' = <<>>
          /\ playerSimResult' = IF outcome = "ok"
                                THEN Some(Some(SeasonResultOf(RankingResponse)))
                                ELSE Some(None)
    /\ UNCHANGED <<mode, teamStat, isSimulating, simRequests, showResults,
                   simulationResults, simOutcome, selectedTeams, modalOpen,
                   handedOver>>
    /\ UNCHANGED <<simVars, rankVars, mc, wp, hookVars>>

\* The rest of runPlayerModeSeasonSimulation once fetch has settled.  The
\* returned value is None for null and Some(result) otherwise.
playerSimReturns ==
    /\ \E req \in playerSim, outcome \in FetchOutcomes :
          /\ playerSim' = playerSim \ {req}
          /\ IF outcome = "ok"
             THEN /\ transactions' = <<>>
                  /\ playerSimResult' = Some(Some(SeasonResultOf(RankingResponse)))
             ELSE /\ transactions' = transactions
                  /\ playerSimResult' = Some(None)
    /\ UNCHANGED <<mode, teamStat, isSimulating, simRequests, showResults,
                   simulationResults, simOutcome, selectedTeams, modalOpen, handedOver>>
    /\ UNCHANGED <<simVars, rankVars, mc, wp, hookVars>>

\* What getRoster answers for a team when the request succeeds
LoadedRoster(teamName, hitterMetric, pitcherMetric) ==
    LET raw == MatchupResponse(teamName)
    IN [i \in 1..Len(raw) |-> mapRawToPlayer(raw[i], hitterMetric, pitcherMetric)]

\* The arena after two different teams were selected and both rosters have
\* arrived
InitArena ==
    /\ InitSim
    /\ rk_in = None /\ rk_out = None /\ rk_prev = None
    /\ mc = None /\ wp = None
    /\ InitApp
    /\ \E t0, t1 \in UiTeams, hitter \in HitterStats, pitcher \in PitcherStats :
          /\ t0.id # t1.id
          /\ teamA = t0.name /\ teamAId = Some(t0.id)
          /\ teamB = t1.name /\ teamBId = Some(t1.id)
          /\ hitterStat = hitter /\ pitcherStat = pitcher
          /\ rosterA = LoadedRoster(t0.name, hitter, pitcher)
          /\ rosterB = LoadedRoster(t1.name, hitter, pitcher)
          /\ originalRosterA = rosterA
          /\ originalRosterB = rosterB
          /\ lastLoaded =
               [side \in {"A", "B"} |->
                  Some([teamName |-> IF side = "A" THEN t0.name ELSE t1.name,
                        hitter |-> hitter, pitcher |-> pitcher,
                        roster |-> IF side = "A" THEN rosterA ELSE rosterB])]
    /\ fetches = {}
    /\ moveLog = "none"
    /\ started = 1

NextArena ==
    \/ setMode
    \/ handleDrop
    \/ resetRosters
    \/ runPlayerModeSeasonSimulation
    \/ playerSimReturns

SpecArena == InitArena /\ [][NextArena]_vars

\* The names of the players of a roster
NamesOf(roster) == {roster[i].name : i \in 1..Len(roster)}

\* The transactions of a list applied in order to the members of the two
\* teams, as the simulation applies them: the player leaves from_team and
\* joins to_team; None when a player is not on the team he is to leave
RECURSIVE Replay(_, _)
Replay(list, members) ==
    IF list = <<>> THEN Some(members)
    ELSE LET t == Head(list)
         IN IF t.player_name \notin members[t.from_team] THEN None
            ELSE Replay(Tail(list),
                        [team \in DOMAIN members |->
                           IF team = t.to_team THEN members[team] \cup {t.player_name}
                           ELSE IF team = t.from_team THEN members[team] \ {t.player_name}
                           ELSE members[team]])

\* The members of the two teams by team name
Membership(a, b) ==
    [team \in {teamA, teamB} |-> IF team = teamA THEN NamesOf(a) ELSE NamesOf(b)]

\* C24 as stated: after any sequence of drag-and-drop moves in Player mode,
\* moves back and resets included, replaying the pending transactions in
\* order against the rosters as loaded yields exactly the membership that
\* rosterA and rosterB show (while no simulation has cleared the list).
C24_Original ==
    playerSim = {} /\ playerSimResult = None =>
        Replay(transactions, Membership(originalRosterA, originalRosterB))
            = Some(Membership(rosterA, rosterB))

\* How often the player of id `id` is shown on the two sides together
TimesShown(id) ==
    Cardinality({i \in 1..Len(rosterA) : rosterA[i].id = id})
        + Cardinality({i \in 1..Len(rosterB) : rosterB[i].id = id})

\* C25: whatever moves and resets were made since the two rosters were
\* loaded, every loaded player is shown exactly once across rosterA and
\* rosterB, and nobody else is shown.
C25_EveryPlayerOnce ==
    /\ \A id \in IdsOf(originalRosterA) \cup IdsOf(originalRosterB) : TimesShown(id) = 1
    /\ IdsOf(rosterA) \cup IdsOf(rosterB) = IdsOf(originalRosterA) \cup IdsOf(originalRosterB)

\* Both players were moved: the player of side A sits on side B behind the
\* player of side B, who was moved away and back
C25_Witness ==
    /\ moveLog = "moved"
    /\ originalRosterA # <<>> /\ originalRosterB # <<>>
    /\ rosterA = <<>>
    /\ Len(rosterB) = 2
    /\ rosterB[1].id = originalRosterA[1].id
    /\ rosterB[2].id = originalRosterB[1].id
    /\ Len(transactions) = 3

\* A call of runPlayerModeSeasonSimulation returns in this step
PlayerSimReturned == playerSim # {} /\ playerSim' = {}

\* C29: a Player-mode season simulation that succeeds returns its result
\* and empties the pending transactions; one whose response is not OK or
\* that throws returns null and leaves them as they are; and nothing else
\* empties a list that holds transactions.
C29_ClearedOnSuccess ==
    [][ /\ PlayerSimReturned /\ playerSimResult'[1] # None => transactions' = <<>>
        /\ PlayerSimReturned /\ transactions' # transactions => playerSimResult'[1] # None
        /\ PlayerSimReturned => playerSimResult' # None
        /\ transactions # <<>> /\ transactions' = <<>> =>
              PlayerSimReturned /\ playerSimResult'[1] # None
      ]_vars

\* A player was moved and the simulation that sent the move has succeeded:
\* the list is empty while the player is still on the other side
C29_Witness ==
    /\ moveLog = "moved"
    /\ playerSim = {}
    /\ playerSimResult # None /\ playerSimResult[1] # None
    /\ transactions = <<>>
    /\ rosterA = <<>>

\* ------------------------------------------------------------------------
\* Overlapping roster requests
\* ------------------------------------------------------------------------
\* The team that the latest confirmSelection handed to a side
SelectedFor(side) == IF side = "A" THEN handedOver[1] ELSE handedOver[2]

\* C26 as stated: once every getRoster call has returned (and no player was
\* moved since), each side names the team selected last and shows what
\* getRoster answers for that team under the metrics selected now: its
\* players rated by these metrics, or nobody when the request failed.
C26_Original ==
    fetches = {} /\ handedOver # <<>> /\ moveLog = "none" =>
        \A side \in {"A", "B"} :
            /\ TeamOfSide(side) = SelectedFor(side).teamName
            /\ RosterOfSide(side) \in getRoster(SelectedFor(side).teamId,
                                                SelectedFor(side).teamName,
                                                hitterStat, pitcherStat)

\* ------------------------------------------------------------------------
\* The season simulation of App: the team stat, the simulate button and
\* the request to /team_ranking/
\* ------------------------------------------------------------------------
\* The values of the team options of the selection menu
TeamStats == {"pythagorean", "elo"}

\* SelectionMenu in Team mode: a team option is clicked
setTeamStat ==
    /\ mode = "Team"
    /\ \E stat \in TeamStats \ {teamStat} : teamStat' = stat
    /\ UNCHANGED <<mode, transactions, playerSim, playerSimResult, isSimulating,
                   simRequests, showResults, simulationResults, simOutcome,
                   selectedTeams, modalOpen, handedOver>>
    /\ UNCHANGED <<simVars, rankVars, mc, wp, hookVars>>

\* The method that handleRunSimulation passes on
MethodOf(stat) == IF stat = "pythagorean" THEN "Pythagorean" ELSE "Elo"

\* runSeasonSimulation(method) up to its await fetch: the body posted to
\* /team_ranking/
runSeasonSimulation(method) ==
    [method |-> IF method = "pythagorean" THEN "Pythagorean" ELSE "Elo"]

\* handleRunSimulation() up to its await: the simulate button is enabled
\* only while isSimulating is false.  A request carries, next to its
\* payload, the team stat that was selected when it was made.
handleRunSimulation ==
    /\ ~isSimulating
    /\ isSimulating' = TRUE
    /\ LET method == MethodOf(teamStat)
       IN simRequests' = simRequests \cup
                           {[selected |-> teamStat, payload |-> runSeasonSimulation(method)]}
    /\ UNCHANGED <<mode, transactions, playerSim, playerSimResult, teamStat,
                   showResults, simulationResults, simOutcome, selectedTeams,
                   modalOpen, handedOver>>
    /\ UNCHANGED <<simVars, rankVars, mc, wp, hookVars>>

\* What /team_ranking/ answers when it succeeds: per league the team names
\* in rank order
TeamRankingResponse == [NL |-> <<"LAD">>, AL |-> <<"NYY", "BOS">>]

\* The TeamSeasonResult objects that runSeasonSimulation makes of it
TeamSeasonResults(data) ==
    LET Teams(league) == [i \in 1..Len(league) |-> [team |-> league[i], rank |-> i]]
    IN [NL |-> Teams(data.NL), AL |-> Teams(data.AL)]

\* A handler without the finally block: isSimulating is reset only after
\* results have arrived
simulationReturnsNoFinally ==
    /\ \E req \in simRequests, outcome \in FetchOutcomes :
          /\ simRequests' = simRequests \ {req}
          /\ simOutcome' = Some(outcome)
          /\ IF outcome = "ok"
             THEN /\ simulationResults' = Some(TeamSeasonResults(TeamRankingResponse))
                  /\ showResults' = TRUE
                  /\ isSimulating' = FALSE
             ELSE UNCHANGED <<simulationResults, showResults, isSimulating>>
    /\ UNCHANGED <<mode, transactions, playerSim, playerSimResult, teamStat,
                   selectedTeams, modalOpen, handedOver>>
    /\ UNCHANGED <<simVars, rankVars, mc, wp, hookVars>>

\* The fetch of runSeasonSimulation settles and handleRunSimulation runs to
\* its end: results are stored and shown, null (a response that is not OK
\* or an exception caught in runSeasonSimulation) is answered by an alert,
\* and finally isSimulating is reset
simulationReturns ==
    /\ \E req \in simRequests, outcome \in FetchOutcomes :
          /\ simRequests' = simRequests \ {req}
          /\ simOutcome' = Some(outcome)
          /\ IF outcome = "ok"
             THEN /\ simulationResults' = Some(TeamSeasonResults(TeamRankingResponse))
                  /\ showResults' = TRUE
             ELSE UNCHANGED <<simulationResults, showResults>>
    /\ isSimulating' = FALSE
    /\ UNCHANGED <<mode, transactions, playerSim, playerSimResult, teamStat,
                   selectedTeams, modalOpen, handedOver>>
    /\ UNCHANGED <<simVars, rankVars, mc, wp, hookVars>>

\* handleCloseResults()
handleCloseResults ==
    /\ showResults
    /\ showResults' = FALSE
    /\ UNCHANGED <<mode, transactions, playerSim, playerSimResult, teamStat,
                   isSimulating, simRequests, simulationResults, simOutcome,
                   selectedTeams, modalOpen, handedOver>>
    /\ UNCHANGED <<simVars, rankVars, mc, wp, hookVars>>

NextApp ==
    \/ setMode
    \/ setTeamStat
    \/ handleRunSimulation
    \/ simulationReturns
    \/ handleCloseResults

SpecApp == Init /\ [][NextApp]_vars

\* Every fetch settles: with a response or with an error
SpecAppFair == SpecApp /\ WF_vars(simulationReturns)

\* C27 as stated: the method of every request to /team_ranking/ is the team
\* stat that was selected when the simulation was started: Pythagorean for
\* pythagorean, Elo for elo.
C27_Original ==
    \A req \in simRequests :
        /\ req.selected = "pythagorean" => req.payload.method = "Pythagorean"
        /\ req.selected = "elo" => req.payload.method = "Elo"

\* C30: every season simulation that was started ends with isSimulating
\* false again, however its request ends; isSimulating is true exactly
\* while a request is under way, and at most one request is under way at a
\* time.
C30_SimulationEnds ==
    /\ [](Cardinality(simRequests) <= 1 /\ (isSimulating <=> simRequests # {}))
    /\ isSimulating ~> ~isSimulating

\* One run has delivered results and a later run has ended without any;
\* isSimulating is false again
C30_Witness ==
    /\ ~isSimulating
    /\ simRequests = {}
    /\ simOutcome \in {Some("thrown"), Some("not_ok")}
    /\ simulationResults # None

\* ------------------------------------------------------------------------
\* The team modal, hooks/useTeamSelect.ts and components/TeamSelect.tsx
\* ------------------------------------------------------------------------
\* An updater that appends whatever is clicked while there is room
appendTeam(prevSelected, teamId) ==
    IF Len(prevSelected) < 2 THEN Append(prevSelected, teamId) ELSE prevSelected

\* The updater of handleTeamSelectClick: a selected team is taken out, any
\* other team is appended while fewer than two are selected
toggleTeam(prevSelected, teamId) ==
    IF \E i \in 1..Len(prevSelected) : prevSelected[i] = teamId
    THEN SelectSeq(prevSelected, LAMBDA id : id # teamId)
    ELSE IF Len(prevSelected) < 2 THEN Append(prevSelected, teamId)
    ELSE prevSelected

\* teams.find(team => team.id === id)?.name || ""
NameOfTeam(id) ==
    IF \E team \in UiTeams : team.id = id
    THEN (CHOOSE team \in UiTeams : team.id = id).name
    ELSE ""

\* openModal()
openModal ==
    /\ selectedTeams' = <<>>
    /\ modalOpen' = TRUE
    /\ UNCHANGED <<mode, transactions, playerSim, playerSimResult, teamStat,
                   isSimulating, simRequests, showResults, simulationResults,
                   simOutcome, handedOver>>
    /\ UNCHANGED <<simVars, rankVars, mc, wp, hookVars>>

\* closeModal(), from the close button of the open modal
closeModal ==
    /\ modalOpen
    /\ modalOpen' = FALSE
    /\ UNCHANGED <<mode, transactions, playerSim, playerSimResult, teamStat,
                   isSimulating, simRequests, showResults, simulationResults,
                   simOutcome, selectedTeams, handedOver>>
    /\ UNCHANGED <<simVars, rankVars, mc, wp, hookVars>>

\* handleTeamSelectClick(teamId): a team of the list of the open modal is
\* clicked
handleTeamSelectClick ==
    /\ modalOpen
    /\ \E team \in UiTeams : selectedTeams' = toggleTeam(selectedTeams, team.id)
    /\ UNCHANGED <<mode, transactions, playerSim, playerSimResult, teamStat,
                   isSimulating, simRequests, showResults, simulationResults,
                   simOutcome, modalOpen, handedOver>>
    /\ UNCHANGED <<simVars, rankVars, mc, wp, hookVars>>

\* The confirm button, enabled while exactly two teams are selected, calls
\* confirmSelection(): the modal closes, the first team goes to side A and
\* the second to side B (handleTeamSelect up to its await, for each)
confirmSelectionBtn ==
    /\ modalOpen
    /\ Len(selectedTeams) = 2
    /\ started < MaxLoads
    /\ started' = started + 1
    /\ modalOpen' = FALSE
    /\ LET callA == [side |-> "A", teamId |-> selectedTeams[1],
                     teamName |-> NameOfTeam(selectedTeams[1])]
           callB == [side |-> "B", teamId |-> selectedTeams[2],
                     teamName |-> NameOfTeam(selectedTeams[2])]
       IN /\ handedOver' = <<callA, callB>>
          /\ fetches' = fetches \cup
                          {handleTeamSelect(callA.side, callA.teamId, callA.teamName),
                           handleTeamSelect(callB.side, callB.teamId, callB.teamName)}
    /\ UNCHANGED <<teamA, teamB, rosterA, rosterB, originalRosterA,
                   originalRosterB, teamAId, teamBId, hitterStat, pitcherStat,
                   lastLoaded, moveLog>>
    /\ UNCHANGED <<mode, transactions, playerSim, playerSimResult, teamStat,
                   isSimulating, simRequests, showResults, simulationResults,
                   simOutcome, selectedTeams>>
    /\ UNCHANGED <<simVars, rankVars, mc, wp>>

NextModal ==
    \/ openModal
    \/ handleTeamSelectClick
    \/ closeModal
    \/ confirmSelectionBtn
    \/ getRosterReturns

SpecModal == Init /\ [][NextModal]_vars

\* The ids of the teams of the list
TeamIds == {team.id : team \in UiTeams}

\* C28: the selection of the modal holds at most two ids of the list, and
\* none twice; a step that opens the modal leaves it empty; teams are
\* handed over only when exactly two are selected, the first to side A and
\* the second to side B, so the two sides receive different teams.
C28_ModalSelection ==
    /\ [](/\ Len(selectedTeams) <= 2
          /\ \A i \in 1..Len(selectedTeams) : selectedTeams[i] \in TeamIds
          /\ \A i, j \in 1..Len(selectedTeams) : i # j => selectedTeams[i] # selectedTeams[j]
          /\ handedOver # <<>> => handedOver[1].teamId # handedOver[2].teamId)
    /\ [][ /\ ~modalOpen /\ modalOpen' => selectedTeams' = <<>>
           /\ (handedOver' # handedOver \/ started' # started) =>
                 /\ Len(selectedTeams) = 2
                 /\ handedOver' = <<[side |-> "A", teamId |-> selectedTeams[1],
                                     teamName |-> NameOfTeam(selectedTeams[1])],
                                    [side |-> "B", teamId |-> selectedTeams[2],
                                     teamName |-> NameOfTeam(selectedTeams[2])]>>
         ]_vars

\* LAD and NYY were picked in this order and confirmed; both answers have
\* arrived and the sides show the teams they were handed
C28_Witness ==
    /\ ~modalOpen
    /\ selectedTeams = <<119, 147>>
    /\ handedOver # <<>>
    /\ handedOver[1].teamName = "LAD" /\ handedOver[2].teamName = "NYY"
    /\ fetches = {}
    /\ teamA = "LAD" /\ teamB = "NYY"
    /\ rosterB # <<>>

====
